---- MODULE Spec2Model ----
(***************************************************************************)
(* The language and intent understanding pipeline of the Rafiki backend:   *)
(*   backend/services/intent_service.py    (class IntentDetector)          *)
(*   backend/services/language_service.py  (class LanguageDetector)        *)
(*                                                                         *)
(* Python str values are TLA+ strings; a character is a string of length   *)
(* one.  Python floats that the code builds from ratios are exact          *)
(* rationals <<numerator, denominator>> in lowest terms.                   *)
(***************************************************************************)
EXTENDS Integers, Sequences, FiniteSets, TLC

(***************************************************************************)
(* Bounds of the model.                                                    *)
(***************************************************************************)
\* An utterance is the concatenation of at most MaxFrags fragments.
MaxFrags == 2

(***************************************************************************)
(* Python str and re primitives.                                           *)
(***************************************************************************)
\* the character at position i of s (1-based), "" outside s
Ch(s, i) == IF i >= 1 /\ i <= Len(s) THEN SubSeq(s, i, i) ELSE ""

\* the value of an expression whose operands are bound first: S is
\* {e : a \in {x}, b \in {y}}, so that x and y are computed once
TheOnly(S) == CHOOSE only \in S : TRUE

\* the string p occurs in s at position i
StartsAt(s, i, p) ==
  i >= 1 /\ i + Len(p) - 1 <= Len(s) /\ SubSeq(s, i, i + Len(p) - 1) = p

Digits == {"0", "1", "2", "3", "4", "5", "6", "7", "8", "9"}

LowerLetters ==
  {"a", "b", "c", "d", "e", "f", "g", "h", "i", "j", "k", "l", "m",
   "n", "o", "p", "q", "r", "s", "t", "u", "v", "w", "x", "y", "z"}

ToLower ==
  [A |-> "a", B |-> "b", C |-> "c", D |-> "d", E |-> "e", F |-> "f",
   G |-> "g", H |-> "h", I |-> "i", J |-> "j", K |-> "k", L |-> "l",
   M |-> "m", N |-> "n", O |-> "o", P |-> "p", Q |-> "q", R |-> "r",
   S |-> "s", T |-> "t", U |-> "u", V |-> "v", W |-> "w", X |-> "x",
   Y |-> "y", Z |-> "z"]

UpperLetters == DOMAIN ToLower

Vowels == {"a", "e", "i", "o", "u"}

\* \s of re and the characters str.strip() / str.split() treat as blank
Whitespace == {" ", "\t", "\n"}

\* \w of re
WordChars == LowerLetters \cup UpperLetters \cup Digits \cup {"_"}

LowerCh(c) == IF c \in UpperLetters THEN ToLower[c] ELSE c

\* str.lower()
RECURSIVE Lower(_)
Lower(s) ==
  IF Len(s) <= 1 THEN LowerCh(s)
  ELSE TheOnly({Lower(SubSeq(str, 1, Len(str) \div 2))
                  \o Lower(SubSeq(str, Len(str) \div 2 + 1, Len(str))) :
                str \in {s}})

RECURSIVE LStrip(_)
LStrip(s) == IF s # "" /\ Head(s) \in Whitespace THEN LStrip(Tail(s)) ELSE s

RECURSIVE RStrip(_)
RStrip(s) ==
  IF s # "" /\ Ch(s, Len(s)) \in Whitespace
  THEN RStrip(SubSeq(s, 1, Len(s) - 1))
  ELSE s

\* str.strip()
Strip(s) == LStrip(RStrip(s))

\* keyword in text
Contains(s, k) ==
  \E i \in 1..(Len(s) - Len(k) + 1) : StartsAt(s, i, k)

\* s.replace(c, '') for a single character c
RECURSIVE RemoveChar(_, _)
RemoveChar(s, c) ==
  IF s = "" THEN ""
  ELSE (IF Head(s) = c THEN "" ELSE Head(s)) \o RemoveChar(Tail(s), c)

\* every character of s[i..j] is in the class cls
AllIn(s, i, j, cls) == \A k \in i..j : Ch(s, k) \in cls

IsWordAt(s, i) == i >= 1 /\ i <= Len(s) /\ Ch(s, i) \in WordChars

\* \b of re at the gap before position i (1 <= i <= Len(s) + 1)
Boundary(s, i) == IsWordAt(s, i - 1) # IsWordAt(s, i)

\* the maximal runs of characters of cls in s, as <<first, last>> positions
Runs(s, cls) ==
  {<<i, j>> \in (1..Len(s)) \X (1..Len(s)) :
     /\ i <= j
     /\ AllIn(s, i, j, cls)
     /\ (i = 1 \/ Ch(s, i - 1) \notin cls)
     /\ (j = Len(s) \/ Ch(s, j + 1) \notin cls)}

\* the \w+ tokens of s
WordTokens(s) == Runs(s, WordChars)

\* str.split(): the whitespace-separated words of s, in order
\* the words of s from position i on: the next word runs from the first
\* character that is not blank to the first one a blank or the end follows
RECURSIVE SplitFrom(_, _)
SplitFrom(s, i) ==
  TheOnly({IF nonblank = {} THEN <<>>
           ELSE TheOnly({<<SubSeq(s, first, last)>> \o SplitFrom(s, last + 1) :
                         first \in {CHOOSE p \in nonblank :
                                      \A q \in nonblank : p <= q},
                         last \in {CHOOSE p \in nonblank :
                                     /\ p + 1 \notin nonblank
                                     /\ \A q \in nonblank :
                                          q + 1 \notin nonblank => p <= q}}) :
           nonblank \in {{p \in i..Len(s) : Ch(s, p) \notin Whitespace}}})

Split(s) == TheOnly({SplitFrom(str, 1) : str \in {s}})

RECURSIVE GCD(_, _)
GCD(a, b) == IF b = 0 THEN a ELSE GCD(b, a % b)

\* the float n/d as an exact rational in lowest terms
Rat(n, d) == <<n \div GCD(n, d), d \div GCD(n, d)>>

Min2(a, b) == IF a < b THEN a ELSE b

(***************************************************************************)
(* IntentDetector: intent labels and keyword tables.                       *)
(***************************************************************************)
INTENT_KRA_NIL_RETURNS == "kra_nil_returns"
INTENT_KRA_PIN_RECOVERY == "kra_pin_recovery"
INTENT_KRA_PIN_GENERATION == "kra_pin_generation"
INTENT_ITAX_HELP == "itax_help"
INTENT_SERVICE_INQUIRY == "service_inquiry"
INTENT_BOOKING == "book_appointment"
INTENT_CONFIRMATION == "confirm"
INTENT_CLARIFICATION == "clarify"
INTENT_GREETING == "greeting"
INTENT_HELP == "help"
INTENT_UNKNOWN == "unknown"
INTENT_NEGATE == "negate"

KRA_NIL_RETURNS_KEYWORDS ==
  <<"nil returns", "nil return", "zero returns", "no income",
    "file returns", "file nil", "submit returns", "annual returns",
    "kra returns", "income returns", "tax returns">>

KRA_PIN_RECOVERY_KEYWORDS ==
  <<"recover pin", "reset pin", "forgotten pin", "lost pin",
    "pin recovery", "forgot pin", "pin reset", "new pin",
    "pin help", "pin issue", "pin problem">>

KRA_PIN_GENERATION_KEYWORDS ==
  <<"get pin", "generate pin", "create pin", "new pin",
    "pin application", "apply for pin", "register for pin",
    "kra pin", "pin number">>

ITAX_KEYWORDS ==
  <<"itax", "i-tax", "login", "password", "username",
    "dashboard", "portal", "account", "access itax">>

GREETING_KEYWORDS ==
  <<"hello", "hi", "hey", "good morning", "good afternoon",
    "good evening", "habari", "jambo", "asante", "karibu",
    "how are you", "how are you doing">>

CONFIRMATION_KEYWORDS ==
  <<"yes", "yeah", "yep", "okay", "ok", "sure", "confirmed",
    "proceed", "go ahead", "continue", "ndiyo", "sawa", "kweli">>

NEGATION_KEYWORDS ==
  <<"no", "nope", "cancel", "stop", "don't", "dont", "back",
    "previous", "hapana", "simu", "usisoma">>

HELP_KEYWORDS ==
  <<"help", "assist", "support", "guide", "explain", "clarify",
    "how", "what", "confused", "stuck", "unclear", "msaada">>

SERVICE_NAMES == <<"passport", "id", "license", "permit", "conduct", "birth">>

BOOKING_KEYWORDS == <<"book", "appointment", "schedule", "reserve">>

\* IntentDetector._normalize_message
normalize_message(message) == Strip(Lower(message))

\* IntentDetector._matches_keywords
matches_keywords(normalized, keywords) ==
  \E i \in 1..Len(keywords) : Contains(normalized, keywords[i])

\* the cascade with the greeting test moved in front of the KRA tests
detect_primary_intent_greeting_first(normalized) ==
  IF matches_keywords(normalized, GREETING_KEYWORDS)
    THEN <<INTENT_GREETING, Rat(90, 100)>>
  ELSE IF matches_keywords(normalized, KRA_NIL_RETURNS_KEYWORDS)
    THEN <<INTENT_KRA_NIL_RETURNS, Rat(95, 100)>>
  ELSE IF matches_keywords(normalized, KRA_PIN_RECOVERY_KEYWORDS)
    THEN <<INTENT_KRA_PIN_RECOVERY, Rat(95, 100)>>
  ELSE IF matches_keywords(normalized, KRA_PIN_GENERATION_KEYWORDS)
    THEN <<INTENT_KRA_PIN_GENERATION, Rat(90, 100)>>
  ELSE IF matches_keywords(normalized, ITAX_KEYWORDS)
    THEN <<INTENT_ITAX_HELP, Rat(85, 100)>>
  ELSE IF matches_keywords(normalized, HELP_KEYWORDS)
    THEN <<INTENT_HELP, Rat(85, 100)>>
  ELSE IF matches_keywords(normalized, CONFIRMATION_KEYWORDS)
    THEN <<INTENT_CONFIRMATION, Rat(80, 100)>>
  ELSE IF matches_keywords(normalized, NEGATION_KEYWORDS)
    THEN <<INTENT_NEGATE, Rat(80, 100)>>
  ELSE IF matches_keywords(normalized, SERVICE_NAMES)
    THEN <<INTENT_SERVICE_INQUIRY, Rat(85, 100)>>
  ELSE IF matches_keywords(normalized, BOOKING_KEYWORDS)
    THEN <<INTENT_BOOKING, Rat(80, 100)>>
  ELSE <<INTENT_UNKNOWN, Rat(5, 10)>>

\* IntentDetector._detect_primary_intent
detect_primary_intent(normalized) ==
  IF matches_keywords(normalized, KRA_NIL_RETURNS_KEYWORDS)
    THEN <<INTENT_KRA_NIL_RETURNS, Rat(95, 100)>>
  ELSE IF matches_keywords(normalized, KRA_PIN_RECOVERY_KEYWORDS)
    THEN <<INTENT_KRA_PIN_RECOVERY, Rat(95, 100)>>
  ELSE IF matches_keywords(normalized, KRA_PIN_GENERATION_KEYWORDS)
    THEN <<INTENT_KRA_PIN_GENERATION, Rat(90, 100)>>
  ELSE IF matches_keywords(normalized, ITAX_KEYWORDS)
    THEN <<INTENT_ITAX_HELP, Rat(85, 100)>>
  ELSE IF matches_keywords(normalized, GREETING_KEYWORDS)
    THEN <<INTENT_GREETING, Rat(90, 100)>>
  ELSE IF matches_keywords(normalized, HELP_KEYWORDS)
    THEN <<INTENT_HELP, Rat(85, 100)>>
  ELSE IF matches_keywords(normalized, CONFIRMATION_KEYWORDS)
    THEN <<INTENT_CONFIRMATION, Rat(80, 100)>>
  ELSE IF matches_keywords(normalized, NEGATION_KEYWORDS)
    THEN <<INTENT_NEGATE, Rat(80, 100)>>
  ELSE IF matches_keywords(normalized, SERVICE_NAMES)
    THEN <<INTENT_SERVICE_INQUIRY, Rat(85, 100)>>
  ELSE IF matches_keywords(normalized, BOOKING_KEYWORDS)
    THEN <<INTENT_BOOKING, Rat(80, 100)>>
  ELSE <<INTENT_UNKNOWN, Rat(5, 10)>>

\* IntentDetector._detect_language: the number of matches re.findall returns
\* for the three Kiswahili patterns, with re.IGNORECASE
SW_PARTICLES == {"na", "kwa", "ni", "wa", "ja", "za", "ta", "ka"}

SW_COMMON_WORDS ==
  {"rafiki", "habari", "asante", "pole", "sawa", "ndiyo", "hapana",
   "tafadhali"}

CountWholeWords(s, words) ==
  Cardinality({r \in WordTokens(s) : Lower(SubSeq(s, r[1], r[2])) \in words})

CountVowelRuns(s) ==
  Cardinality({r \in Runs(Lower(s), Vowels) : r[2] - r[1] + 1 >= 2})

\* IntentDetector._detect_language (message is a str)
detect_language(message) ==
  IF CountWholeWords(message, SW_PARTICLES)
       + CountWholeWords(message, SW_COMMON_WORDS)
       + CountVowelRuns(message) > 3
  THEN "sw" ELSE "en"

(***************************************************************************)
(* Python values of dynamic type: a str, None, or an int.                  *)
(***************************************************************************)
None == [t |-> "None"]
PyStr(s) == [t |-> "str", v |-> s]
PyInt(n) == [t |-> "int", v |-> n]
IsStr(x) == x.t = "str"

\* an empty dict
EmptyDict == [k \in {} |-> k]

\* the truth value Python gives a str, None or int
Truthy(x) ==
  CASE x.t = "None" -> FALSE
    [] x.t = "str" -> x.v # ""
    [] x.t = "int" -> x.v # 0

(***************************************************************************)
(* IntentDetector._extract_entities: the regular expressions.              *)
(* A match is <<first, last>>; NoMatch when re.search returns None.        *)
(***************************************************************************)
NoMatch == <<0, 0>>

\* re.search: at[i] is the match that starts at position i of the string,
\* and the leftmost position with a match wins
FirstMatch(at) ==
  LET starts == {i \in DOMAIN at : at[i] # NoMatch}
  IN IF starts = {} THEN NoMatch
     ELSE at[CHOOSE i \in starts : \A j \in starts : i <= j]

Group(s, m) == SubSeq(s, m[1], m[2])

DigitsAt(s, i, n) == i >= 1 /\ i + n - 1 <= Len(s) /\ AllIn(s, i, i + n - 1, Digits)

\* (?:\+254|0)?[17]\d{8}
PhoneAt(s, i) ==
  IF StartsAt(s, i, "+254") /\ Ch(s, i + 4) \in {"1", "7"}
       /\ DigitsAt(s, i + 5, 8)
    THEN <<i, i + 12>>
  ELSE IF Ch(s, i) = "0" /\ Ch(s, i + 1) \in {"1", "7"} /\ DigitsAt(s, i + 2, 8)
    THEN <<i, i + 9>>
  ELSE IF Ch(s, i) \in {"1", "7"} /\ DigitsAt(s, i + 1, 8)
    THEN <<i, i + 8>>
  ELSE NoMatch

\* \b\d{10}\b
KraPinAt(s, i) ==
  IF Boundary(s, i) /\ DigitsAt(s, i, 10) /\ Boundary(s, i + 10)
  THEN <<i, i + 9>> ELSE NoMatch

\* the position after the run of \s that starts at i
RECURSIVE SkipSpace(_, _)
SkipSpace(s, i) ==
  IF i <= Len(s) /\ Ch(s, i) \in Whitespace THEN SkipSpace(s, i + 1) ELSE i

\* (\d{2}\s*){n-1}\d{2} at i: the last position of the match, 0 if none
RECURSIVE PairsEnd(_, _, _)
PairsEnd(s, i, n) ==
  IF ~DigitsAt(s, i, 2) THEN 0
  ELSE IF n = 1 THEN i + 1
  ELSE PairsEnd(s, SkipSpace(s, i + 2), n - 1)

\* \b\d{8}\b|\d{2}\s*\d{2}\s*\d{2}\s*\d{2}
NationalIdAt(s, i) ==
  IF Boundary(s, i) /\ DigitsAt(s, i, 8) /\ Boundary(s, i + 8)
    THEN <<i, i + 7>>
  ELSE IF PairsEnd(s, i, 4) # 0
    THEN <<i, PairsEnd(s, i, 4)>>
  ELSE NoMatch

EmailChars == WordChars \cup {".", "-"}

\* the last position of the run of cls that starts at i (i - 1 if empty)
RECURSIVE RunEnd(_, _, _)
RunEnd(s, i, cls) ==
  IF i <= Len(s) /\ Ch(s, i) \in cls THEN RunEnd(s, i + 1, cls) ELSE i - 1

\* [\w\.-]+@[\w\.-]+\.\w+
EmailAt(s, i) ==
  LET a == RunEnd(s, i, EmailChars) + 1      \* where the @ has to be
      b == RunEnd(s, a + 1, EmailChars)      \* the end of the domain run
      dots == {p \in (a + 2)..(b - 1) : Ch(s, p) = "." /\ Ch(s, p + 1) \in WordChars}
  IN IF a > i /\ Ch(s, a) = "@" /\ dots # {}
     THEN <<i, RunEnd(s, (CHOOSE p \in dots : \A q \in dots : q <= p) + 1, WordChars)>>
     ELSE NoMatch

\* \b([A-Z][a-z]+\s+[A-Z][a-z]+)\b
NameAt(s, i) ==
  LET e1 == RunEnd(s, i + 1, LowerLetters)
      u2 == SkipSpace(s, e1 + 1)
      e2 == RunEnd(s, u2 + 1, LowerLetters)
  IN IF /\ Boundary(s, i) /\ Ch(s, i) \in UpperLetters /\ e1 >= i + 1
        /\ u2 > e1 + 1 /\ Ch(s, u2) \in UpperLetters /\ e2 >= u2 + 1
        /\ Boundary(s, e2 + 1)
     THEN <<i, e2>> ELSE NoMatch

\* \b(\d{1,2}[/-]\d{1,2}[/-]\d{2,4})\b
DateAt(s, i) ==
  LET e1 == RunEnd(s, i, Digits)
      e2 == RunEnd(s, e1 + 2, Digits)
      e3 == RunEnd(s, e2 + 2, Digits)
  IN IF /\ Boundary(s, i)
        /\ e1 - i + 1 \in 1..2 /\ Ch(s, e1 + 1) \in {"/", "-"}
        /\ e2 - e1 - 1 \in 1..2 /\ Ch(s, e2 + 1) \in {"/", "-"}
        /\ e3 - e2 - 1 \in 2..4 /\ Boundary(s, e3 + 1)
     THEN <<i, e3>> ELSE NoMatch

\* a dict with the one key k when the match m succeeded, else no key
Found(k, s, m) == IF m = NoMatch THEN EmptyDict ELSE k :> Group(s, m)

\* the entities every intent gets
BaseEntities(message) ==
  LET id == FirstMatch([i \in 1..Len(message) |-> NationalIdAt(message, i)])
  IN Found("phone_number", message, FirstMatch([i \in 1..Len(message) |-> PhoneAt(message, i)]))
     @@ Found("kra_pin", message, FirstMatch([i \in 1..Len(message) |-> KraPinAt(message, i)]))
     @@ (IF id = NoMatch THEN EmptyDict
         ELSE "national_id" :> RemoveChar(Group(message, id), " "))
     @@ Found("email", message, FirstMatch([i \in 1..Len(message) |-> EmailAt(message, i)]))
     @@ Found("user_name", message, FirstMatch([i \in 1..Len(message) |-> NameAt(message, i)]))

\* the intent-specific entries with a service_type for every intent
IntentEntities_service_type_always(message, intent, entities) ==
  IF intent = INTENT_KRA_NIL_RETURNS
    THEN ("service_type" :> "nil_returns")
         @@ ("requires_pin" :> ("kra_pin" \notin DOMAIN entities))
  ELSE IF intent = INTENT_KRA_PIN_RECOVERY
    THEN ("service_type" :> "pin_recovery")
         @@ ("requires_identification" :> ("national_id" \notin DOMAIN entities))
  ELSE IF intent = INTENT_KRA_PIN_GENERATION
    THEN ("service_type" :> "pin_generation")
         @@ ("requires_identification" :> ("national_id" \notin DOMAIN entities))
  ELSE "service_type" :> intent

\* the intent-specific entries with "afternoon" tested before "morning"
IntentEntities_afternoon_first(message, intent, entities) ==
  IF intent = INTENT_KRA_NIL_RETURNS
    THEN ("service_type" :> "nil_returns")
         @@ ("requires_pin" :> ("kra_pin" \notin DOMAIN entities))
  ELSE IF intent = INTENT_KRA_PIN_RECOVERY
    THEN ("service_type" :> "pin_recovery")
         @@ ("requires_identification" :> ("national_id" \notin DOMAIN entities))
  ELSE IF intent = INTENT_KRA_PIN_GENERATION
    THEN ("service_type" :> "pin_generation")
         @@ ("requires_identification" :> ("national_id" \notin DOMAIN entities))
  ELSE IF intent = INTENT_BOOKING
    THEN Found("date", message, FirstMatch([i \in 1..Len(message) |-> DateAt(message, i)]))
         @@ (IF Contains(Lower(message), "afternoon") \/ Contains(Lower(message), "pm")
               THEN "time_slot" :> "afternoon"
             ELSE IF Contains(Lower(message), "morning")
                       \/ Contains(Lower(message), "am")
               THEN "time_slot" :> "morning"
             ELSE EmptyDict)
  ELSE EmptyDict

\* the intent-specific entries, given the entities found so far
IntentEntities(message, intent, entities) ==
  IF intent = INTENT_KRA_NIL_RETURNS
    THEN ("service_type" :> "nil_returns")
         @@ ("requires_pin" :> ("kra_pin" \notin DOMAIN entities))
  ELSE IF intent = INTENT_KRA_PIN_RECOVERY
    THEN ("service_type" :> "pin_recovery")
         @@ ("requires_identification" :> ("national_id" \notin DOMAIN entities))
  ELSE IF intent = INTENT_KRA_PIN_GENERATION
    THEN ("service_type" :> "pin_generation")
         @@ ("requires_identification" :> ("national_id" \notin DOMAIN entities))
  ELSE IF intent = INTENT_BOOKING
    THEN Found("date", message, FirstMatch([i \in 1..Len(message) |-> DateAt(message, i)]))
         @@ (IF Contains(Lower(message), "morning") \/ Contains(Lower(message), "am")
               THEN "time_slot" :> "morning"
             ELSE IF Contains(Lower(message), "afternoon")
                       \/ Contains(Lower(message), "pm")
               THEN "time_slot" :> "afternoon"
             ELSE EmptyDict)
  ELSE EmptyDict

\* IntentDetector._extract_entities (message is a str)
extract_entities(message, intent) ==
  LET entities == BaseEntities(message)
  IN IntentEntities(message, intent, entities) @@ entities

(***************************************************************************)
(* IntentDetector: workflows, suggestions and result flags.                *)
(***************************************************************************)
\* the workflows with PIN recovery asking for authentication when the
\* entities carry no national_id
get_workflow_authenticating_unidentified(intent, entities, session_context) ==
  IF intent = INTENT_KRA_NIL_RETURNS THEN
    [name |-> "KRA Nil Returns Filing",
     steps |-> <<"Confirm user has KRA PIN",
                 "Explain nil returns eligibility",
                 "Navigate to iTax portal",
                 "Guide through login",
                 "Guide through nil returns form",
                 "Confirm submission",
                 "Offer SMS confirmation">>,
     urls |-> <<"https://accounts.ecitizen.go.ke/en/services/itax">>,
     requires_authentication |-> TRUE,
     sms_confirmation |-> TRUE]
  ELSE IF intent = INTENT_KRA_PIN_RECOVERY THEN
    [name |-> "KRA PIN Recovery",
     steps |-> <<"Verify user identity (national ID)",
                 "Explain recovery process",
                 "Ask for registered email/phone",
                 "Guide through recovery link",
                 "Confirm new PIN delivery",
                 "Offer SMS confirmation">>,
     urls |-> <<"https://accounts.ecitizen.go.ke/en/services/pin-recovery">>,
     requires_authentication |-> "national_id" \notin DOMAIN entities,
     sms_confirmation |-> TRUE]
  ELSE IF intent = INTENT_KRA_PIN_GENERATION THEN
    [name |-> "KRA PIN Generation",
     steps |-> <<"Verify user identity (national ID)",
                 "Explain PIN requirements",
                 "Navigate to iTax registration",
                 "Guide through registration form",
                 "Confirm PIN assignment",
                 "Offer SMS PIN confirmation">>,
     urls |-> <<"https://accounts.ecitizen.go.ke/en/services/pin-registration">>,
     requires_authentication |-> FALSE,
     sms_confirmation |-> TRUE]
  ELSE IF intent = INTENT_ITAX_HELP THEN
    [name |-> "iTax Portal Assistance",
     steps |-> <<"Determine specific issue",
                 "Provide login guidance",
                 "Offer step-by-step help",
                 "Confirm issue resolved">>,
     urls |-> <<"https://itax.kra.go.ke">>,
     requires_authentication |-> TRUE,
     sms_confirmation |-> FALSE]
  ELSE IF intent = INTENT_BOOKING THEN
    [name |-> "Appointment Booking",
     steps |-> <<"Confirm service type",
                 "Verify user identity",
                 "Confirm preferred date/time",
                 "Take contact details",
                 "Send SMS confirmation">>,
     urls |-> <<>>,
     requires_authentication |-> FALSE,
     sms_confirmation |-> TRUE]
  ELSE None

\* the workflows with a service inquiry resolved to the booking workflow
get_workflow_inquiry_as_booking(intent, entities, session_context) ==
  IF intent = INTENT_KRA_NIL_RETURNS THEN
    [name |-> "KRA Nil Returns Filing",
     steps |-> <<"Confirm user has KRA PIN",
                 "Explain nil returns eligibility",
                 "Navigate to iTax portal",
                 "Guide through login",
                 "Guide through nil returns form",
                 "Confirm submission",
                 "Offer SMS confirmation">>,
     urls |-> <<"https://accounts.ecitizen.go.ke/en/services/itax">>,
     requires_authentication |-> TRUE,
     sms_confirmation |-> TRUE]
  ELSE IF intent = INTENT_KRA_PIN_RECOVERY THEN
    [name |-> "KRA PIN Recovery",
     steps |-> <<"Verify user identity (national ID)",
                 "Explain recovery process",
                 "Ask for registered email/phone",
                 "Guide through recovery link",
                 "Confirm new PIN delivery",
                 "Offer SMS confirmation">>,
     urls |-> <<"https://accounts.ecitizen.go.ke/en/services/pin-recovery">>,
     requires_authentication |-> FALSE,
     sms_confirmation |-> TRUE]
  ELSE IF intent = INTENT_KRA_PIN_GENERATION THEN
    [name |-> "KRA PIN Generation",
     steps |-> <<"Verify user identity (national ID)",
                 "Explain PIN requirements",
                 "Navigate to iTax registration",
                 "Guide through registration form",
                 "Confirm PIN assignment",
                 "Offer SMS PIN confirmation">>,
     urls |-> <<"https://accounts.ecitizen.go.ke/en/services/pin-registration">>,
     requires_authentication |-> FALSE,
     sms_confirmation |-> TRUE]
  ELSE IF intent = INTENT_ITAX_HELP THEN
    [name |-> "iTax Portal Assistance",
     steps |-> <<"Determine specific issue",
                 "Provide login guidance",
                 "Offer step-by-step help",
                 "Confirm issue resolved">>,
     urls |-> <<"https://itax.kra.go.ke">>,
     requires_authentication |-> TRUE,
     sms_confirmation |-> FALSE]
  ELSE IF intent \in {INTENT_BOOKING, INTENT_SERVICE_INQUIRY} THEN
    [name |-> "Appointment Booking",
     steps |-> <<"Confirm service type",
                 "Verify user identity",
                 "Confirm preferred date/time",
                 "Take contact details",
                 "Send SMS confirmation">>,
     urls |-> <<>>,
     requires_authentication |-> FALSE,
     sms_confirmation |-> TRUE]
  ELSE None

\* IntentDetector._get_workflow; entities and session_context are not read
get_workflow(intent, entities, session_context) ==
  IF intent = INTENT_KRA_NIL_RETURNS THEN
    [name |-> "KRA Nil Returns Filing",
     steps |-> <<"Confirm user has KRA PIN",
                 "Explain nil returns eligibility",
                 "Navigate to iTax portal",
                 "Guide through login",
                 "Guide through nil returns form",
                 "Confirm submission",
                 "Offer SMS confirmation">>,
     urls |-> <<"https://accounts.ecitizen.go.ke/en/services/itax">>,
     requires_authentication |-> TRUE,
     sms_confirmation |-> TRUE]
  ELSE IF intent = INTENT_KRA_PIN_RECOVERY THEN
    [name |-> "KRA PIN Recovery",
     steps |-> <<"Verify user identity (national ID)",
                 "Explain recovery process",
                 "Ask for registered email/phone",
                 "Guide through recovery link",
                 "Confirm new PIN delivery",
                 "Offer SMS confirmation">>,
     urls |-> <<"https://accounts.ecitizen.go.ke/en/services/pin-recovery">>,
     requires_authentication |-> FALSE,
     sms_confirmation |-> TRUE]
  ELSE IF intent = INTENT_KRA_PIN_GENERATION THEN
    [name |-> "KRA PIN Generation",
     steps |-> <<"Verify user identity (national ID)",
                 "Explain PIN requirements",
                 "Navigate to iTax registration",
                 "Guide through registration form",
                 "Confirm PIN assignment",
                 "Offer SMS PIN confirmation">>,
     urls |-> <<"https://accounts.ecitizen.go.ke/en/services/pin-registration">>,
     requires_authentication |-> FALSE,
     sms_confirmation |-> TRUE]
  ELSE IF intent = INTENT_ITAX_HELP THEN
    [name |-> "iTax Portal Assistance",
     steps |-> <<"Determine specific issue",
                 "Provide login guidance",
                 "Offer step-by-step help",
                 "Confirm issue resolved">>,
     urls |-> <<"https://itax.kra.go.ke">>,
     requires_authentication |-> TRUE,
     sms_confirmation |-> FALSE]
  ELSE IF intent = INTENT_BOOKING THEN
    [name |-> "Appointment Booking",
     steps |-> <<"Confirm service type",
                 "Verify user identity",
                 "Confirm preferred date/time",
                 "Take contact details",
                 "Send SMS confirmation">>,
     urls |-> <<>>,
     requires_authentication |-> FALSE,
     sms_confirmation |-> TRUE]
  ELSE None

\* the suggestions without the branch for the help intent
get_suggestions_no_help(intent, workflow) ==
  IF intent = INTENT_KRA_NIL_RETURNS THEN
    <<"Guide me through filing nil returns",
      "Open iTax portal",
      "Do I qualify for nil returns?">>
  ELSE IF intent = INTENT_KRA_PIN_RECOVERY THEN
    <<"Help me recover my PIN",
      "Send recovery link to my email",
      "Explain the recovery process">>
  ELSE IF intent = INTENT_KRA_PIN_GENERATION THEN
    <<"Apply for a new KRA PIN",
      "What do I need to get a PIN?",
      "Start the registration process">>
  ELSE IF intent = INTENT_GREETING THEN
    <<"File nil returns",
      "Recover my KRA PIN",
      "Get a KRA PIN",
      "Book an appointment">>
  ELSE
    <<"Can you clarify that?",
      "Tell me more",
      "Try again">>

\* the suggestions with a greeting list of 3 items
get_suggestions_three_for_greeting(intent, workflow) ==
  IF intent = INTENT_KRA_NIL_RETURNS THEN
    <<"Guide me through filing nil returns",
      "Open iTax portal",
      "Do I qualify for nil returns?">>
  ELSE IF intent = INTENT_KRA_PIN_RECOVERY THEN
    <<"Help me recover my PIN",
      "Send recovery link to my email",
      "Explain the recovery process">>
  ELSE IF intent = INTENT_KRA_PIN_GENERATION THEN
    <<"Apply for a new KRA PIN",
      "What do I need to get a PIN?",
      "Start the registration process">>
  ELSE IF intent = INTENT_GREETING THEN
    <<"File nil returns",
      "Recover my KRA PIN",
      "Get a KRA PIN">>
  ELSE IF intent = INTENT_HELP THEN
    <<"Can you help me navigate?",
      "What services are available?",
      "Go back to main menu">>
  ELSE
    <<"Can you clarify that?",
      "Tell me more",
      "Try again">>

\* IntentDetector._get_suggestions; workflow is not read
get_suggestions(intent, workflow) ==
  IF intent = INTENT_KRA_NIL_RETURNS THEN
    <<"Guide me through filing nil returns",
      "Open iTax portal",
      "Do I qualify for nil returns?">>
  ELSE IF intent = INTENT_KRA_PIN_RECOVERY THEN
    <<"Help me recover my PIN",
      "Send recovery link to my email",
      "Explain the recovery process">>
  ELSE IF intent = INTENT_KRA_PIN_GENERATION THEN
    <<"Apply for a new KRA PIN",
      "What do I need to get a PIN?",
      "Start the registration process">>
  ELSE IF intent = INTENT_GREETING THEN
    <<"File nil returns",
      "Recover my KRA PIN",
      "Get a KRA PIN",
      "Book an appointment">>
  ELSE IF intent = INTENT_HELP THEN
    <<"Can you help me navigate?",
      "What services are available?",
      "Go back to main menu">>
  ELSE
    <<"Can you clarify that?",
      "Tell me more",
      "Try again">>

\* IntentDetector._needs_confirmation
needs_confirmation(intent) ==
  intent \in {INTENT_BOOKING, INTENT_KRA_NIL_RETURNS,
              INTENT_KRA_PIN_RECOVERY, INTENT_KRA_PIN_GENERATION}

\* is_conversational with the nil-returns intent in its list
is_conversational_with_nil_returns(intent) ==
  intent \in {INTENT_GREETING, INTENT_HELP, INTENT_UNKNOWN,
              INTENT_SERVICE_INQUIRY, INTENT_CLARIFICATION,
              INTENT_KRA_NIL_RETURNS}

\* IntentDetector._is_conversational
is_conversational(intent) ==
  intent \in {INTENT_GREETING, INTENT_HELP, INTENT_UNKNOWN,
              INTENT_SERVICE_INQUIRY, INTENT_CLARIFICATION}

(***************************************************************************)
(* LanguageDetector: vocabularies and scoring.                             *)
(***************************************************************************)
KISWAHILI_VOCABULARY ==
  {"habari", "asante", "karibu", "pole", "sawa", "ndiyo", "hapana",
   "tafadhali", "rafiki", "msaada", "tupo", "sana", "kwa", "na", "ni",
   "kupata", "kusaidia", "kufanya", "kufikia", "kuenda", "kujibu",
   "kufungua", "kuandika", "kuanguka", "kufa", "kutegemea",
   "mtu", "watu", "kitu", "vitu", "sehemu", "mahali",
   "asubuhi", "alasiri", "jioni", "usiku", "siku", "wiki", "mwezi",
   "mwaka", "muda", "wakati", "saa", "dakika", "sekunde",
   "namba", "idadi", "kila", "moja", "mbili", "tatu", "nne",
   "kra", "pin", "itax", "serikali", "huduma", "fomu", "karatasi",
   "hata", "kama", "lakini", "ingawa", "baada", "kabla",
   "kutoka", "kwenda", "huko", "hapa", "hapo", "sini", "juu",
   "chini", "mbali", "jibu", "swali", "ujumbe", "ujumuika"}

ENGLISH_VOCABULARY ==
  {"hello", "thank", "please", "help", "friend", "nil", "returns",
   "file", "password", "login", "submit", "form", "booking",
   "appointment", "service", "government", "portal", "access",
   "recovery", "registration", "confirmation", "sms"}

SW_PHRASES ==
  <<"nataka", "karibu", "asante", "tafadhali", "je", "nini",
    "wakati gani", "siku gani", "wapi", "nani", "lini">>

EN_PHRASES ==
  <<"file nil", "kra pin", "recover pin", "itax", "help me",
    "how to", "what is", "where is", "when can", "do i">>

EN_FUNCTION_WORDS ==
  {"the", "a", "an", "is", "are", "be", "been", "have", "has", "do",
   "does", "did"}

\* LanguageDetector._normalize_word: re.sub(r'[^\w]', '', word.lower())
RECURSIVE KeepWordChars(_)
KeepWordChars(s) ==
  IF s = "" THEN ""
  ELSE (IF Head(s) \in WordChars THEN Head(s) ELSE "") \o KeepWordChars(Tail(s))

normalize_word(word) == KeepWordChars(Lower(word))

\* the number of words of the list that normalize into the vocabulary
VocabularyCount(words, vocabulary) ==
  Cardinality({i \in 1..Len(words) : normalize_word(words[i]) \in vocabulary})

PhraseCount(text, phrases) ==
  Cardinality({i \in 1..Len(phrases) : Contains(text, phrases[i])})

\* \b[a-z]{2,}[iaeou][aeiou]+ matches somewhere in text
SwVowelPattern(text) ==
  \E i \in 1..Len(text) :
    /\ Boundary(text, i)
    /\ \E j \in (i + 2)..(Len(text) - 1) :
         /\ AllIn(text, i, j - 1, LowerLetters)
         /\ Ch(text, j) \in Vowels
         /\ Ch(text, j + 1) \in Vowels

\* \b<prefix>\w+ matches somewhere in text, for a prefix of the set
SwPrefixPattern(text, prefixes) ==
  \E i \in 1..Len(text) :
    /\ Boundary(text, i)
    /\ \E p \in prefixes :
         /\ StartsAt(text, i, p)
         /\ IsWordAt(text, i + Len(p))

\* how many of the four KISWAHILI_PATTERNS re.search finds in text
KiswahiliPatternMatches(text) ==
  (IF SwVowelPattern(text) THEN 1 ELSE 0)
  + (IF SwPrefixPattern(text, {"ku", "ka"}) THEN 1 ELSE 0)
  + (IF SwPrefixPattern(text, {"ma", "mo"}) THEN 1 ELSE 0)
  + (IF SwPrefixPattern(text, {"ni", "na", "ja", "li", "tu", "wa"}) THEN 1 ELSE 0)

\* [a-z]+'[a-z]+ matches somewhere in text
EnContraction(text) ==
  \E i \in 2..(Len(text) - 1) :
    /\ Ch(text, i) = "'"
    /\ Ch(text, i - 1) \in LowerLetters
    /\ Ch(text, i + 1) \in LowerLetters

\* \b(the|a|an|is|are|be|been|have|has|do|does|did)\b matches somewhere
EnFunctionWord(text) ==
  \E r \in WordTokens(text) : SubSeq(text, r[1], r[2]) \in EN_FUNCTION_WORDS

\* rationals <<n, d>> with d > 0
RatLess(a, b) == a[1] * b[2] < b[1] * a[2]
RatAdd(a, b) == Rat(a[1] * b[2] + b[1] * a[2], a[2] * b[2])
RatDiv(a, b) == Rat(a[1] * b[2], a[2] * b[1])
RatMin(a, b) == IF RatLess(a, b) THEN a ELSE b

(***************************************************************************)
(* Python float arithmetic (IEEE 754 binary64, round-half-even) on the     *)
(* values the scores take.  A float is held as the natural number of units *)
(* of 2^-75 it amounts to, a sequence of 15-bit limbs, least significant   *)
(* first; every float between 2^-22 and 2^53 is such a number.             *)
(***************************************************************************)
RECURSIVE Pow2(_)
Pow2(k) == IF k = 0 THEN 1 ELSE 2 * Pow2(k - 1)

\* the limbs without the zero limbs at the top
RECURSIVE Trim(_)
Trim(x) ==
  TheOnly({IF v # <<>> /\ v[Len(v)] = 0
           THEN Trim(SubSeq(v, 1, Len(v) - 1))
           ELSE v : v \in {x}})

BigAdd(x, y) ==
  TheOnly({LET RECURSIVE From(_, _)
               From(i, carry) ==
                 IF i > Len(a) /\ i > Len(b)
                 THEN (IF carry = 0 THEN <<>> ELSE <<carry>>)
                 ELSE TheOnly({<<t % Pow2(15)>>
                                 \o From(i + 1, t \div Pow2(15)) :
                               t \in {(IF i <= Len(a) THEN a[i] ELSE 0)
                                        + (IF i <= Len(b) THEN b[i] ELSE 0)
                                        + carry}})
           IN From(1, 0) : a \in {x}, b \in {y}})

\* x * d for 0 <= d <= 2^15
BigMulSmall(x, d) ==
  TheOnly({LET RECURSIVE From(_, _)
               From(i, carry) ==
                 IF i > Len(a)
                 THEN (IF carry = 0 THEN <<>> ELSE <<carry>>)
                 ELSE TheOnly({<<t % Pow2(15)>>
                                 \o From(i + 1, t \div Pow2(15)) :
                               t \in {a[i] * m + carry}})
           IN Trim(From(1, 0)) : a \in {x}, m \in {d}})

BigMul(x, y) ==
  TheOnly({LET RECURSIVE From(_)
               From(i) ==
                 IF i > Len(a) THEN <<>>
                 ELSE BigAdd([j \in 1..(i - 1) |-> 0] \o BigMulSmall(b, a[i]),
                             From(i + 1))
           IN Trim(From(1)) : a \in {x}, b \in {y}})

\* <<x div d, x mod d>> for 0 < d <= 2^15
BigDivSmall(x, d) ==
  TheOnly({LET RECURSIVE From(_, _)
               From(i, rem) ==
                 IF i = 0 THEN <<<<>>, rem>>
                 ELSE TheOnly({<<Append(low[1], (rem * Pow2(15) + a[i]) \div m),
                                 low[2]>> :
                               low \in {From(i - 1,
                                             (rem * Pow2(15) + a[i]) % m)}})
           IN TheOnly({<<Trim(r[1]), r[2]>> : r \in {From(Len(a), 0)}}) :
           a \in {x}, m \in {d}})

\* -1, 0, 1 as x is below, equal to, above y
BigCmp(x, y) ==
  TheOnly({LET RECURSIVE From(_)
               From(i) ==
                 IF i = 0 THEN 0
                 ELSE IF a[i] < b[i] THEN -1
                 ELSE IF a[i] > b[i] THEN 1
                 ELSE From(i - 1)
           IN IF Len(a) < Len(b) THEN -1
              ELSE IF Len(a) > Len(b) THEN 1
              ELSE From(Len(a)) : a \in {Trim(x)}, b \in {Trim(y)}})

\* x rounded to 53 significant bits, ties to even; inexact tells that the
\* exact value lies above x by less than one unit
Round53(x, inexact) ==
  LET bits(t) == IF t = <<>> THEN 0
                 ELSE 15 * (Len(t) - 1)
                        + (CHOOSE k \in 1..15 :
                             Pow2(k - 1) <= t[Len(t)] /\ t[Len(t)] < Pow2(k))
      shl(v, n) == [j \in 1..(n \div 15) |-> 0] \o BigMulSmall(v, Pow2(n % 15))
      shr(v, n) == BigDivSmall(SubSeq(v, n \div 15 + 1, Len(v)),
                               Pow2(n % 15))[1]
      up(t, q, half) ==
        TheOnly({cmp = 1 \/ (cmp = 0 /\ (inexact \/ q[1] % 2 = 1)) :
                 cmp \in {BigCmp(t, half)}})
      round(t, s) ==
        IF s <= 0 THEN t
        ELSE TheOnly({shl(IF up(t, q, shl(BigAdd(BigMulSmall(q, 2), <<1>>),
                                          s - 1))
                          THEN BigAdd(q, <<1>>) ELSE q, s) :
                      q \in {shr(t, s)}})
  IN TheOnly({round(t, bits(t) - 53) : t \in {Trim(x)}})

\* the float a / n of two ints, 0 <= a < 2^15, 0 < n < 2^15; the float
\* literals are FDiv(1, 10), FDiv(1, 5), FDiv(3, 10), FDiv(2, 5), FDiv(1, 2)
FDiv(a, n) ==
  TheOnly({Round53(d[1], d[2] # 0) :
           d \in {BigDivSmall(Trim(<<0, 0, 0, 0, 0, a>>), n)}})

FAdd(x, y) == Round53(BigAdd(x, y), FALSE)

\* the product amounts to units of 2^-150
FMul(x, y) ==
  TheOnly({IF Len(p) <= 5 THEN <<>> ELSE SubSeq(p, 6, Len(p)) :
           p \in {Round53(BigMul(x, y), FALSE)}})

FLess(x, y) == BigCmp(x, y) = -1

FMin(x, y) == TheOnly({IF FLess(a, b) THEN a ELSE b : a \in {x}, b \in {y}})

\* Python float expressions: a / n of two ints, x + y, x * y, min(x, y)
Quot(a, n) == [op |-> "/", a |-> a, n |-> n]
Plus(x, y) == [op |-> "+", x |-> x, y |-> y]
Times(x, y) == [op |-> "*", x |-> x, y |-> y]
Least(x, y) == [op |-> "min", x |-> x, y |-> y]

\* the float a Python float expression evaluates to, operands first
RECURSIVE FloatValue(_)
FloatValue(e) ==
  IF e.op = "/" THEN FDiv(e.a, e.n)
  ELSE TheOnly({CASE e.op = "+" -> FAdd(x, y)
                  [] e.op = "*" -> FMul(x, y)
                  [] e.op = "min" -> FMin(x, y) :
                x \in {FloatValue(e.x)}, y \in {FloatValue(e.y)}})

\* LanguageDetector._score_kiswahili
score_kiswahili(text) ==
  LET words == Split(text)
      vocab == IF Len(words) > 0
               THEN Rat(VocabularyCount(words, KISWAHILI_VOCABULARY) * 5,
                        Len(words) * 10)
               ELSE Rat(0, 1)
      patterns == Rat(KiswahiliPatternMatches(text) * 3, 4 * 10)
      phrases == Rat(Min2(PhraseCount(text, SW_PHRASES), 2), 10)
  IN RatMin(RatAdd(RatAdd(vocab, patterns), phrases), Rat(1, 1))

\* LanguageDetector._score_english
score_english(text) ==
  LET words == Split(text)
      vocab == IF Len(words) > 0
               THEN Rat(VocabularyCount(words, ENGLISH_VOCABULARY) * 4,
                        Len(words) * 10)
               ELSE Rat(0, 1)
      contraction == IF EnContraction(text) THEN Rat(2, 10) ELSE Rat(0, 1)
      grammar == IF EnFunctionWord(text) THEN Rat(3, 10) ELSE Rat(0, 1)
      phrases == Rat(Min2(PhraseCount(text, EN_PHRASES), 2), 10)
  IN RatMin(RatAdd(RatAdd(RatAdd(vocab, contraction), grammar), phrases),
            Rat(1, 1))

\* LanguageDetector._score_kiswahili, as the float expression it evaluates
score_kiswahili_binary64(text) ==
  LET words == Split(text)
      vocab == IF Len(words) > 0
               THEN Plus(Quot(0, 1),
                         Times(Quot(VocabularyCount(words, KISWAHILI_VOCABULARY),
                                    Len(words)),
                               Quot(1, 2)))
               ELSE Quot(0, 1)
      patterns == Plus(vocab, Times(Quot(KiswahiliPatternMatches(text), 4),
                                    Quot(3, 10)))
      phrases == Plus(patterns,
                      Least(Times(Quot(PhraseCount(text, SW_PHRASES), 1),
                                  Quot(1, 10)),
                            Quot(1, 5)))
  IN Least(phrases, Quot(1, 1))

\* LanguageDetector._score_english, as the float expression it evaluates
score_english_binary64(text) ==
  LET words == Split(text)
      vocab == IF Len(words) > 0
               THEN Plus(Quot(0, 1),
                         Times(Quot(VocabularyCount(words, ENGLISH_VOCABULARY),
                                    Len(words)),
                               Quot(2, 5)))
               ELSE Quot(0, 1)
      contraction == IF EnContraction(text) THEN Plus(vocab, Quot(1, 5))
                     ELSE vocab
      grammar == IF EnFunctionWord(text) THEN Plus(contraction, Quot(3, 10))
                 ELSE contraction
      phrases == Plus(grammar,
                      Least(Times(Quot(PhraseCount(text, EN_PHRASES), 1),
                                  Quot(1, 10)),
                            Quot(1, 5)))
  IN Least(phrases, Quot(1, 1))

\* sw_score > en_score + 0.2 of detect.  The scores are multiples of
\* 1/(40 * len(words)), each float lies within 2^-50 of the score it stands
\* for, so rounding decides the test only where the exact values tie.
ExceedsMargin(text, sw_score, en_score) ==
  IF sw_score = RatAdd(en_score, Rat(2, 10))
  THEN TheOnly({FLess(FloatValue(Plus(en, Quot(1, 5))), FloatValue(sw)) :
                sw \in {score_kiswahili_binary64(text)},
                en \in {score_english_binary64(text)}})
  ELSE RatLess(RatAdd(en_score, Rat(2, 10)), sw_score)

\* session_context and session_context.get('preferred_language')
HasPreferredLanguage(session_context) ==
  /\ session_context # None
  /\ "preferred_language" \in DOMAIN session_context
  /\ Truthy(session_context["preferred_language"])

\* the confidence with 0.5 in place of 0.6 when both scores are zero
LanguageConfidence_half_default(won, other) ==
  RatMin(IF RatLess(Rat(0, 1), RatAdd(won, other))
         THEN RatDiv(won, RatAdd(won, other))
         ELSE Rat(5, 10),
         Rat(1, 1))

\* the confidence of the winning language: its score over the sum of both
LanguageConfidence(won, other) ==
  RatMin(IF RatLess(Rat(0, 1), RatAdd(won, other))
         THEN RatDiv(won, RatAdd(won, other))
         ELSE Rat(6, 10),
         Rat(1, 1))

\* detect without the session-language short cut
LanguageDetector_detect_ignoring_session(text, session_context) ==
  IF ~IsStr(text)
    THEN <<PyStr("en"), Rat(5, 10)>>
  ELSE
    TheOnly({TheOnly({IF ExceedsMargin(normalized_text, sw_score, en_score)
                      THEN <<PyStr("sw"),
                             LanguageConfidence(sw_score, en_score)>>
                      ELSE <<PyStr("en"),
                             LanguageConfidence(en_score, sw_score)>> :
                      sw_score \in {score_kiswahili(normalized_text)},
                      en_score \in {score_english(normalized_text)}}) :
             normalized_text \in {Strip(Lower(text.v))}})

\* LanguageDetector.detect: <<language, confidence>>.  text is any Python
\* value; text.lower() of a value that is no str raises inside the try and
\* the handler returns ('en', 0.5).
LanguageDetector_detect(text, session_context) ==
  IF HasPreferredLanguage(session_context)
    THEN <<session_context["preferred_language"], Rat(1, 1)>>
  ELSE IF ~IsStr(text)
    THEN <<PyStr("en"), Rat(5, 10)>>
  ELSE
    TheOnly({TheOnly({IF ExceedsMargin(normalized_text, sw_score, en_score)
                      THEN <<PyStr("sw"),
                             LanguageConfidence(sw_score, en_score)>>
                      ELSE <<PyStr("en"),
                             LanguageConfidence(en_score, sw_score)>> :
                      sw_score \in {score_kiswahili(normalized_text)},
                      en_score \in {score_english(normalized_text)}}) :
             normalized_text \in {Strip(Lower(text.v))}})

(***************************************************************************)
(* LanguageDetector.detect_code_switches.                                  *)
(***************************************************************************)
SentenceDelimiters == {".", "!", "?"}

\* re.split(r'[.!?]', text): the pieces between the delimiters, empty pieces
\* included; piece k lies between the (k-1)-th and the k-th delimiter
ReSplit(text) ==
  TheOnly({LET n == Cardinality(cuts)
               cut(k) == IF k = 0 THEN 0
                         ELSE IF k = n + 1 THEN Len(text) + 1
                         ELSE CHOOSE i \in cuts :
                                Cardinality({j \in cuts : j <= i}) = k
           IN [k \in 1..(n + 1) |->
                 IF cut(k - 1) + 1 > cut(k) - 1 THEN ""
                 ELSE SubSeq(text, cut(k - 1) + 1, cut(k) - 1)] :
           cuts \in {{i \in 1..Len(text) :
                        Ch(text, i) \in SentenceDelimiters}}})

\* the locals of detect_code_switches before the loop
SwitchLocals ==
  [segments |-> <<>>,
   current_language |-> None,
   current_segment |-> "",
   current_start |-> 0]

\* the dict appended to segments
Segment(text, lang, start, end) ==
  [text |-> Strip(text), language |-> lang, start |-> start, end |-> end]

\* a new segment is started for every sentence
StartsSegment_every_sentence(detected_lang, current_language) == TRUE

\* if detected_lang != current_language
StartsSegment(detected_lang, current_language) ==
  detected_lang # current_language

\* one iteration of the loop over the sentences
SwitchStep(text, sentence, st) ==
  IF Strip(sentence) = "" THEN st
  ELSE
    TheOnly({IF StartsSegment(detected_lang, st.current_language)
             THEN LET current_segment == sentence \o ". "
                  IN [segments |->
                        IF st.current_segment # ""
                        THEN Append(st.segments,
                                    Segment(st.current_segment,
                                            st.current_language,
                                            st.current_start,
                                            st.current_start
                                              + Len(st.current_segment)))
                        ELSE st.segments,
                      current_language |-> detected_lang,
                      current_segment |-> current_segment,
                      current_start |-> Len(text) - Len(current_segment)]
             ELSE [st EXCEPT !.current_segment = @ \o sentence \o ". "] :
             detected_lang \in
               {LanguageDetector_detect(PyStr(sentence), None)[1]}})

RECURSIVE SwitchLoop(_, _, _, _)
SwitchLoop(text, sentences, i, st) ==
  IF i > Len(sentences) THEN st
  ELSE TheOnly({SwitchLoop(text, sentences, i + 1, next) :
                next \in {SwitchStep(text, sentences[i], st)}})

\* detect_code_switches without the final segment
detect_code_switches_without_final(text) ==
  SwitchLoop(text, ReSplit(text), 1, SwitchLocals).segments

\* LanguageDetector.detect_code_switches(text), text a str
detect_code_switches(text) ==
  TheOnly({IF st.current_segment # ""
           THEN Append(st.segments,
                       Segment(st.current_segment, st.current_language,
                               Len(text) - Len(st.current_segment), Len(text)))
           ELSE st.segments :
           st \in {SwitchLoop(text, ReSplit(text), 1, SwitchLocals)}})

(***************************************************************************)
(* Inputs.                                                                 *)
(***************************************************************************)
\* the intent labels of IntentDetector, "navigate" and "negate" included
Intents ==
  {INTENT_KRA_NIL_RETURNS, INTENT_KRA_PIN_RECOVERY, INTENT_KRA_PIN_GENERATION,
   INTENT_ITAX_HELP, INTENT_SERVICE_INQUIRY, INTENT_BOOKING,
   INTENT_CONFIRMATION, "navigate", INTENT_CLARIFICATION, INTENT_GREETING,
   INTENT_HELP, INTENT_UNKNOWN, INTENT_NEGATE}

\* pieces an utterance is concatenated from
Fragments ==
  {"Hi", " ", "file nil returns", "1234567890", "Habari rafiki. ", "\t"}

RECURSIVE Concats(_)
Concats(n) ==
  IF n = 0 THEN {""}
  ELSE Concats(n - 1) \cup {a \o f : a \in Concats(n - 1), f \in Fragments}

\* one keyword of each rule of the cascade, and a word of no rule
RuleSamples ==
  {"file nil", "lost pin", "kra pin", "itax", "hey", "what", "sure",
   "cancel", "permit", "reserve", "zzz"}

RulePairs == {a \o " " \o b : a \in RuleSamples, b \in RuleSamples}

Corpus ==
  {"What's the weather today?",
   "Hello! I want to file nil returns, my KRA pin is 1234567890",
   "Nataka kusaidia, nambari yangu ya simu ni 0712345678",
   "Hi, I need to file nil returns",
   "habari asante sawa ndiyo rafiki",
   "my pin is 1234567890.",
   "ID 12345678",
   "12 34 56 78",
   "call +254712345678",
   "x1234567890",
   "12345678901",
   "kra pin itax n'a asante kufikia moja namba",
   "nil moja",
   "book",
   "new pin",
   "12\t34\n56 78",
   "712345678",
   "07123456789",
   "Book 12/05/2024 at 3 pm, I am free",
   "Book me 12-05-24 PM",
   "Habari rafiki!! Asante sana. Is it the form?",
   "Book me 1/2/24 in the AM",
   "mail j.doe@x.org",
   "I am John Smith",
   "kuenda maji naona",
   "don't do that",
   "zzz",
   "Jambo! Habari yako? I need help.",
   "Please help. Asante sana rafiki. Thank you friend!",
   "Habari rafiki! Asante sana. Is it the form?"}

Utterances == Concats(MaxFrags) \cup RulePairs \cup Corpus

\* values a caller can pass for the utterance that are no str
Malformed == {None, PyInt(42)}

Messages == {PyStr(u) : u \in Utterances} \cup Malformed

\* a caller's session context before any language is pinned
FreshContext == "booking_state" :> PyStr("started")

\* session contexts a caller can pass: none, an empty or an unpinned dict,
\* and dicts whose preferred_language the caller has set itself
Contexts ==
  {None,
   EmptyDict,
   FreshContext,
   "preferred_language" :> PyStr("sw"),
   ("preferred_language" :> PyStr("en")) @@ ("last_intent" :> PyStr("help")),
   "preferred_language" :> PyStr("fr"),
   "preferred_language" :> PyStr(""),
   "preferred_language" :> None}

\* utterances of the callers of the shared detector instances
SessionUtterances ==
  {"",
   "   ",
   "What's the weather today?",
   "Hello! I want to file nil returns, my KRA pin is 1234567890",
   "Nataka kusaidia, nambari yangu ya simu ni 0712345678",
   "habari asante sawa ndiyo rafiki",
   "Where is the bus?",
   "Good day, I would need to file nil returns please, my KRA pin is 1234567890"}

ConcurrentMessages ==
  {PyStr("Hello, I forgot pin"), PyStr("habari asante sawa ndiyo rafiki"), None}

(***************************************************************************)
(* State.                                                                  *)
(***************************************************************************)
VARIABLES
  message,             \* message[c]: the utterance caller c holds
  context,             \* context[c]: the session-context dict caller c owns
  language,            \* intent_detector.language
  session_language,    \* language_detector.session_language
  detected_languages,  \* language_detector.detected_languages
  pc,                  \* pc[c]: where caller c is in IntentDetector.detect
  frame,               \* frame[c]: the locals of c's detect call in progress
  ret                  \* ret[c]: the call c made last and what it returned

vars ==
  <<message, context, language, session_language, detected_languages,
    pc, frame, ret>>

Callers == DOMAIN pc

NoCall == [op |-> "none"]

\* IntentDetector.__init__ and LanguageDetector.__init__ (module-level
\* instances intent_detector and language_detector)
InitDetectors ==
  /\ language = "en"
  /\ session_language = None
  /\ detected_languages = <<>>

InitCallers(cs, msgs) ==
  /\ message \in [cs -> msgs]
  /\ context = [c \in cs |-> FreshContext]
  /\ pc = [c \in cs |-> "idle"]
  /\ frame = [c \in cs |-> EmptyDict]
  /\ ret = [c \in cs |-> NoCall]

detectors == <<language, session_language, detected_languages>>

(***************************************************************************)
(* The pure methods, applied once to the caller's input.                   *)
(***************************************************************************)
Returned(c, r) ==
  /\ pc[c] = "idle"
  /\ pc' = [pc EXCEPT ![c] = "returned"]
  /\ ret' = [ret EXCEPT ![c] = r]
  /\ UNCHANGED <<message, context, frame, detectors>>

\* intent_detector._detect_primary_intent(_normalize_message(message))
CallClassify(c) ==
  /\ IsStr(message[c])
  /\ LET normalized == normalize_message(message[c].v)
     IN Returned(c, [op |-> "detect_primary_intent",
                     normalized |-> normalized,
                     result |-> detect_primary_intent(normalized)])

\* intent_detector._extract_entities(message, intent)
CallExtract(c, intent) ==
  /\ IsStr(message[c])
  /\ Returned(c, [op |-> "extract_entities",
                  message |-> message[c].v,
                  intent |-> intent,
                  result |-> extract_entities(message[c].v, intent)])

\* intent_detector._detect_language(message)
CallDetectLanguage(c) ==
  /\ IsStr(message[c])
  /\ Returned(c, [op |-> "detect_language",
                  message |-> message[c].v,
                  result |-> detect_language(message[c].v)])

\* language_detector.detect(text, session_context); scored tells whether
\* _score_kiswahili and _score_english were called
LanguageDetectorCall(text, session_context) ==
  [op |-> "LanguageDetector.detect",
   text |-> text,
   session_context |-> session_context,
   scored |-> ~HasPreferredLanguage(session_context) /\ IsStr(text),
   result |-> LanguageDetector_detect(text, session_context)]

CallLanguageDetector(c, session_context) ==
  Returned(c, LanguageDetectorCall(message[c], session_context))

\* language_detector.detect_code_switches(text); re.split raises TypeError
\* to the caller for a text that is no str
CallDetectCodeSwitches(c) ==
  Returned(c, IF IsStr(message[c])
              THEN [op |-> "detect_code_switches",
                    text |-> message[c],
                    outcome |-> "DONE",
                    result |-> detect_code_switches(message[c].v)]
              ELSE [op |-> "detect_code_switches",
                    text |-> message[c],
                    outcome |-> "RAISED"])

Classify == \E c \in Callers : CallClassify(c)

Extract == \E c \in Callers, intent \in Intents : CallExtract(c, intent)

DetectLanguage == \E c \in Callers : CallDetectLanguage(c)

LanguageDetect ==
  \E c \in Callers, sc \in Contexts : CallLanguageDetector(c, sc)

Switches == \E c \in Callers : CallDetectCodeSwitches(c)

Init == InitDetectors /\ InitCallers({1}, Messages)

Next ==
  Classify \/ Extract \/ DetectLanguage \/ LanguageDetect \/ Switches

Spec == Init /\ [][Next]_vars

(***************************************************************************)
(* IntentDetector.detect, one step per pipeline stage.  self.language is   *)
(* written by the first stage and read again when the result is built.     *)
(***************************************************************************)
\* the values a caller passes as message: its utterance, or no str at all
Args(c) == {message[c]} \cup Malformed

\* the call is entered
Call(c, m, sc) ==
  /\ pc[c] = "idle"
  /\ pc' = [pc EXCEPT ![c] = "START"]
  /\ frame' = [frame EXCEPT ![c] = [message |-> m, session_context |-> sc]]
  /\ ret' = [ret EXCEPT ![c] = NoCall]
  /\ UNCHANGED <<message, context, detectors>>

\* self.language = self._detect_language(message); re.findall raises
\* TypeError for a message that is no str, before the assignment
ResolveLanguage(c) ==
  /\ pc[c] = "START"
  /\ IF IsStr(frame[c].message)
     THEN /\ language' = detect_language(frame[c].message.v)
          /\ pc' = [pc EXCEPT ![c] = "LANGUAGE_RESOLVED"]
     ELSE /\ language' = language
          /\ pc' = [pc EXCEPT ![c] = "RAISED"]
  /\ UNCHANGED <<message, context, session_language, detected_languages,
                 frame, ret>>

\* normalized = self._normalize_message(message);
\* intent, confidence = self._detect_primary_intent(normalized)
ClassifyIntent(c) ==
  /\ pc[c] = "LANGUAGE_RESOLVED"
  /\ LET normalized == normalize_message(frame[c].message.v)
         found == detect_primary_intent(normalized)
     IN frame' = [frame EXCEPT ![c] =
                    [normalized |-> normalized, intent |-> found[1],
                     confidence |-> found[2]] @@ @]
  /\ pc' = [pc EXCEPT ![c] = "INTENT_CLASSIFIED"]
  /\ UNCHANGED <<message, context, detectors, ret>>

\* entities = self._extract_entities(message, intent)
ExtractEntities(c) ==
  /\ pc[c] = "INTENT_CLASSIFIED"
  /\ frame' = [frame EXCEPT ![c] =
                 [entities |-> extract_entities(@.message.v, @.intent)] @@ @]
  /\ pc' = [pc EXCEPT ![c] = "ENTITIES_EXTRACTED"]
  /\ UNCHANGED <<message, context, detectors, ret>>

\* workflow = self._get_workflow(intent, entities, session_context)
ResolveWorkflow(c) ==
  /\ pc[c] = "ENTITIES_EXTRACTED"
  /\ frame' = [frame EXCEPT ![c] =
                 [workflow |-> get_workflow(@.intent, @.entities,
                                            @.session_context)] @@ @]
  /\ pc' = [pc EXCEPT ![c] = "WORKFLOW_RESOLVED"]
  /\ UNCHANGED <<message, context, detectors, ret>>

\* the dict of the return statement, reading the field self.language as lang
ResultDict(f, lang) ==
  [intent |-> f.intent,
   confidence |-> f.confidence,
   language |-> lang,
   normalized_message |-> f.normalized,
   entities |-> f.entities,
   workflow |-> f.workflow,
   suggested_actions |-> get_suggestions(f.intent, f.workflow),
   requires_confirmation |-> needs_confirmation(f.intent),
   is_conversational |-> is_conversational(f.intent)]

\* the error dict without the two boolean flags
ErrorDict_without_flags(lang) ==
  [intent |-> INTENT_UNKNOWN,
   confidence |-> Rat(0, 1),
   language |-> lang,
   entities |-> EmptyDict,
   workflow |-> None,
   suggested_actions |-> <<"Could you clarify what you need?">>]

\* the error dict with the confidence of the unknown fallback
ErrorDict_half_confidence(lang) ==
  [intent |-> INTENT_UNKNOWN,
   confidence |-> Rat(5, 10),
   language |-> lang,
   entities |-> EmptyDict,
   workflow |-> None,
   suggested_actions |-> <<"Could you clarify what you need?">>,
   requires_confirmation |-> FALSE,
   is_conversational |-> TRUE]

\* the dict the except clause returns
ErrorDict(lang) ==
  [intent |-> INTENT_UNKNOWN,
   confidence |-> Rat(0, 1),
   language |-> lang,
   entities |-> EmptyDict,
   workflow |-> None,
   suggested_actions |-> <<"Could you clarify what you need?">>,
   requires_confirmation |-> FALSE,
   is_conversational |-> TRUE]

DetectCall(f, outcome, result) ==
  [op |-> "IntentDetector.detect",
   message |-> f.message,
   session_context |-> f.session_context,
   outcome |-> outcome,
   result |-> result]

\* suggestions = self._get_suggestions(intent, workflow); return {...}
Finish(c) ==
  /\ pc[c] = "WORKFLOW_RESOLVED"
  /\ ret' = [ret EXCEPT ![c] =
               DetectCall(frame[c], "DONE", ResultDict(frame[c], language))]
  /\ frame' = [frame EXCEPT ![c] = EmptyDict]
  /\ pc' = [pc EXCEPT ![c] = "idle"]
  /\ UNCHANGED <<message, context, detectors>>

\* the except clause starts the pipeline again
HandleError_retrying(c) ==
  /\ pc[c] = "RAISED"
  /\ pc' = [pc EXCEPT ![c] = "START"]
  /\ UNCHANGED <<message, context, detectors, frame, ret>>

\* except Exception: ... return {...}
HandleError(c) ==
  /\ pc[c] = "RAISED"
  /\ ret' = [ret EXCEPT ![c] =
               DetectCall(frame[c], "ERROR", ErrorDict(language))]
  /\ frame' = [frame EXCEPT ![c] = EmptyDict]
  /\ pc' = [pc EXCEPT ![c] = "idle"]
  /\ UNCHANGED <<message, context, detectors>>

\* language_detector.detect(text, session_context), on the shared instance
SessionLanguageDetect(c, text, sc) ==
  /\ pc[c] = "idle"
  /\ ret' = [ret EXCEPT ![c] = LanguageDetectorCall(text, sc)]
  /\ UNCHANGED <<message, context, detectors, pc, frame>>

\* set_session_language without the test of language
SetSessionLanguage_unvalidated(c, lang, passed) ==
  /\ pc[c] = "idle"
  /\ session_language' = PyStr(lang)
  /\ context' = IF passed
                THEN [context EXCEPT ![c] =
                        ("preferred_language" :> PyStr(lang)) @@ @]
                ELSE context
  /\ ret' = [ret EXCEPT ![c] =
               [op |-> "set_session_language", language |-> lang,
                passed |-> passed, before |-> context[c]]]
  /\ UNCHANGED <<message, language, detected_languages, pc, frame>>

\* LanguageDetector.set_session_language(language, context); passed tells
\* whether the caller hands its context over or None
SetSessionLanguage(c, lang, passed) ==
  /\ pc[c] = "idle"
  /\ IF lang \in {"en", "sw"}
     THEN /\ session_language' = PyStr(lang)
          /\ context' = IF passed
                        THEN [context EXCEPT ![c] =
                                ("preferred_language" :> PyStr(lang)) @@ @]
                        ELSE context
     ELSE UNCHANGED <<session_language, context>>
  /\ ret' = [ret EXCEPT ![c] =
               [op |-> "set_session_language", language |-> lang,
                passed |-> passed, before |-> context[c]]]
  /\ UNCHANGED <<message, language, detected_languages, pc, frame>>

\* the intents a caller of the shared detector extracts entities for
ExtractIntents == {INTENT_KRA_NIL_RETURNS, INTENT_BOOKING, INTENT_GREETING}

\* the record a caller keeps of an _extract_entities call: what this call
\* returned, and what the first call of the current series of calls returned
ExtractCall(c, intent, result) ==
  LET call == [intent |-> intent, result |-> result]
  IN [op |-> "extract_entities",
      message |-> message[c].v,
      intent |-> intent,
      result |-> result,
      first |-> IF ret[c].op = "extract_entities" /\ "first" \in DOMAIN ret[c]
                THEN ret[c].first ELSE call]

\* _extract_entities filling a dict that outlives the call: the entries of
\* the call before stay in it
SessionExtract_accumulating(c, intent) ==
  /\ pc[c] = "idle"
  /\ IsStr(message[c])
  /\ ret' = [ret EXCEPT ![c] =
               ExtractCall(c, intent,
                           extract_entities(message[c].v, intent)
                             @@ (IF ret[c].op = "extract_entities"
                                 THEN ret[c].result ELSE EmptyDict))]
  /\ UNCHANGED <<message, context, detectors, pc, frame>>

\* intent_detector._extract_entities(message, intent) on the shared
\* instance: entities is a new dict, self is neither read nor written
SessionExtract(c, intent) ==
  /\ pc[c] = "idle"
  /\ IsStr(message[c])
  /\ ret' = [ret EXCEPT ![c] =
               ExtractCall(c, intent, extract_entities(message[c].v, intent))]
  /\ UNCHANGED <<message, context, detectors, pc, frame>>

\* entity maps and session contexts a caller passes to _get_workflow
EntityMaps ==
  {EmptyDict,
   "national_id" :> "12345678",
   ("kra_pin" :> "1234567890") @@ ("service_type" :> "nil_returns")
     @@ ("requires_pin" :> FALSE)}

ResolveContexts == {None, "preferred_language" :> PyStr("sw")}

\* the record a caller keeps of a _get_workflow call: the descriptor it
\* holds (result), the descriptor it held from the call before (held), and
\* the first call of the series as it returned (first)
WorkflowCall(c, intent, entities, session_context, result) ==
  LET resolved == ret[c].op = "get_workflow"
  IN [op |-> "get_workflow",
      intent |-> intent,
      entities |-> entities,
      session_context |-> session_context,
      result |-> result,
      mutated |-> FALSE,
      held |-> IF resolved THEN ret[c].result ELSE None,
      first |-> IF resolved THEN ret[c].first
                ELSE [intent |-> intent, result |-> result]]

\* _get_workflow handing out the descriptor it handed out for this intent
\* the call before, the same object
SessionResolve_shared_descriptor(c, intent, entities, session_context) ==
  /\ pc[c] = "idle"
  /\ ret' = [ret EXCEPT ![c] =
               WorkflowCall(c, intent, entities, session_context,
                            IF ret[c].op = "get_workflow"
                                 /\ ret[c].intent = intent
                            THEN ret[c].result
                            ELSE get_workflow(intent, entities,
                                              session_context))]
  /\ UNCHANGED <<message, context, detectors, pc, frame>>

\* intent_detector._get_workflow(intent, entities, session_context): the
\* dict literal of the return statement is a new object in every call
SessionResolve(c, intent, entities, session_context) ==
  /\ pc[c] = "idle"
  /\ ret' = [ret EXCEPT ![c] =
               WorkflowCall(c, intent, entities, session_context,
                            get_workflow(intent, entities, session_context))]
  /\ UNCHANGED <<message, context, detectors, pc, frame>>

\* the caller changes the descriptor it holds: workflow['steps'].append(..),
\* workflow['urls'].clear(), workflow['sms_confirmation'] = False
MutateDescriptor(c) ==
  /\ pc[c] = "idle"
  /\ ret[c].op = "get_workflow"
  /\ ret[c].result # None
  /\ ~ret[c].mutated
  /\ ret' = [ret EXCEPT ![c].result =
               [@ EXCEPT !.steps = Append(@, "Call the help desk"),
                         !.urls = <<>>,
                         !.sms_confirmation = FALSE],
             ![c].mutated = TRUE]
  /\ UNCHANGED <<message, context, detectors, pc, frame>>

\* intent_detector._get_suggestions(intent, workflow), with the descriptor
\* the caller holds
SessionSuggest(c) ==
  /\ pc[c] = "idle"
  /\ ret[c].op = "get_workflow"
  /\ ret' = [ret EXCEPT ![c] =
               [op |-> "get_suggestions",
                intent |-> ret[c].intent,
                workflow |-> ret[c].result,
                result |-> get_suggestions(ret[c].intent, ret[c].result)]]
  /\ UNCHANGED <<message, context, detectors, pc, frame>>

\* the session contexts caller c can pass: none, or the dict it owns
OwnContexts(c) == {None, context[c]}

Enter ==
  \E c \in Callers : \E m \in Args(c), sc \in OwnContexts(c) : Call(c, m, sc)

Language == \E c \in Callers : ResolveLanguage(c)

Intent == \E c \in Callers : ClassifyIntent(c)

Entities == \E c \in Callers : ExtractEntities(c)

Workflow == \E c \in Callers : ResolveWorkflow(c)

Done == \E c \in Callers : Finish(c)

Error == \E c \in Callers : HandleError(c)

DetectText ==
  \E c \in Callers : \E m \in Args(c), sc \in OwnContexts(c) :
    SessionLanguageDetect(c, m, sc)

Pin ==
  \E c \in Callers, lang \in {"en", "sw", "fr"}, passed \in BOOLEAN :
    SetSessionLanguage(c, lang, passed)

ExtractAgain ==
  \E c \in Callers, intent \in ExtractIntents : SessionExtract(c, intent)

\* language_detector.detect_code_switches(text) on the shared instance; the
\* method takes no session context and calls self.detect(sentence) without
\* one
SessionCodeSwitches(c) ==
  /\ pc[c] = "idle"
  /\ IsStr(message[c])
  /\ ret' = [ret EXCEPT ![c] =
               [op |-> "detect_code_switches",
                text |-> message[c],
                outcome |-> "DONE",
                result |-> detect_code_switches(message[c].v)]]
  /\ UNCHANGED <<message, context, detectors, pc, frame>>

SegmentText == \E c \in Callers : SessionCodeSwitches(c)

\* one caller at a time on the shared detectors
SeqInit ==
  InitDetectors /\ InitCallers({1}, {PyStr(u) : u \in SessionUtterances})

SeqNext ==
  \/ Enter \/ Language \/ Intent \/ Entities \/ Workflow \/ Done \/ Error
  \/ DetectText \/ Pin \/ ExtractAgain \/ SegmentText

SeqSpec == SeqInit /\ [][SeqNext]_vars

\* calls of intent_detector.detect only, one after the other
PipelineNext ==
  Enter \/ Language \/ Intent \/ Entities \/ Workflow \/ Done \/ Error

\* short utterances of each outcome of the pipeline
PipelineUtterances ==
  {"", "Hi", "lost pin", "file nil returns", "Habari rafiki", "book 1/2/24"}

PipelineInit ==
  InitDetectors /\ InitCallers({1}, {PyStr(u) : u \in PipelineUtterances})

\* a caller inside detect runs its next statement
FairPipelineSpec ==
  /\ PipelineInit /\ [][PipelineNext]_vars
  /\ WF_vars(Language) /\ WF_vars(Intent) /\ WF_vars(Entities)
  /\ WF_vars(Workflow) /\ WF_vars(Done) /\ WF_vars(Error)

\* two threads inside intent_detector.detect at once
ConcInit == InitDetectors /\ InitCallers({1, 2}, ConcurrentMessages)

EnterOwn == \E c \in Callers : Call(c, message[c], context[c])

ConcNext ==
  EnterOwn \/ Language \/ Intent \/ Entities \/ Workflow \/ Done \/ Error

ConcSpec == ConcInit /\ [][ConcNext]_vars

\* a caller of the workflow resolver and the suggestion generator
Resolve ==
  \E c \in Callers, intent \in Intents, entities \in EntityMaps,
     sc \in ResolveContexts :
    SessionResolve(c, intent, entities, sc)

Mutate == \E c \in Callers : MutateDescriptor(c)

Suggest == \E c \in Callers : SessionSuggest(c)

ResolveInit == InitDetectors /\ InitCallers({1}, {PyStr("Hi")})

ResolveNext == Resolve \/ Mutate \/ Suggest

ResolveSpec == ResolveInit /\ [][ResolveNext]_vars

(***************************************************************************)
(* Properties.                                                             *)
(***************************************************************************)
\* the rules of the intent cascade in the order the specification lists them
RuleTable ==
  <<[keywords |-> KRA_NIL_RETURNS_KEYWORDS,
     result |-> <<"kra_nil_returns", <<19, 20>>>>],
    [keywords |-> KRA_PIN_RECOVERY_KEYWORDS,
     result |-> <<"kra_pin_recovery", <<19, 20>>>>],
    [keywords |-> KRA_PIN_GENERATION_KEYWORDS,
     result |-> <<"kra_pin_generation", <<9, 10>>>>],
    [keywords |-> ITAX_KEYWORDS, result |-> <<"itax_help", <<17, 20>>>>],
    [keywords |-> GREETING_KEYWORDS, result |-> <<"greeting", <<9, 10>>>>],
    [keywords |-> HELP_KEYWORDS, result |-> <<"help", <<17, 20>>>>],
    [keywords |-> CONFIRMATION_KEYWORDS, result |-> <<"confirm", <<4, 5>>>>],
    [keywords |-> NEGATION_KEYWORDS, result |-> <<"negate", <<4, 5>>>>],
    [keywords |-> SERVICE_NAMES, result |-> <<"service_inquiry", <<17, 20>>>>],
    [keywords |-> BOOKING_KEYWORDS, result |-> <<"book_appointment", <<4, 5>>>>]>>

\* rule i has a keyword that occurs in the text as a substring
Fires(i, text) ==
  \E k \in 1..Len(RuleTable[i].keywords) :
    \E p \in 1..Len(text) : StartsAt(text, p, RuleTable[i].keywords[k])

FiringRules(text) == {i \in 1..Len(RuleTable) : Fires(i, text)}

Lowest(S) == CHOOSE i \in S : \A j \in S : i <= j

\* C1: classify returns the intent and confidence of the lowest-numbered
\* rule (order: nil-returns, PIN-recovery, PIN-generation, iTax, greeting,
\* help, confirmation, negation, service-name, booking) that has a keyword
\* in the normalized text; a text with a nil-returns keyword and a greeting
\* keyword is kra_nil_returns at 0.95.
C1_RulePrecedence ==
  \A c \in Callers :
    ret[c].op = "detect_primary_intent" =>
      LET fired == FiringRules(ret[c].normalized)
      IN /\ fired # {} => ret[c].result = RuleTable[Lowest(fired)].result
         /\ {1, 5} \subseteq fired =>
              ret[c].result = <<"kra_nil_returns", <<19, 20>>>>

C1_Witness ==
  \E c \in Callers :
    /\ ret[c].op = "detect_primary_intent"
    /\ {1, 5} \subseteq FiringRules(ret[c].normalized)
    /\ ret[c].result[1] = "kra_nil_returns"

WeatherUtterance == "What's the weather today?"

HelpSuggestions ==
  <<"Can you help me navigate?", "What services are available?",
    "Go back to main menu">>

FallbackSuggestions == <<"Can you clarify that?", "Tell me more", "Try again">>

\* a finished analyze call of caller c on a str
Analyzed(c) == ret[c].op = "IntentDetector.detect" /\ IsStr(ret[c].message)

\* C2 as stated: analysing "What's the weather today?" yields unknown with
\* confidence 0.5, no workflow and the generic fallback suggestions.
C2_Original ==
  \A c \in Callers :
    Analyzed(c) /\ ret[c].message.v = WeatherUtterance =>
      /\ ret[c].result.intent = "unknown"
      /\ ret[c].result.confidence = <<1, 2>>
      /\ ret[c].result.workflow = None
      /\ ret[c].result.suggested_actions = FallbackSuggestions

\* C2 amended: an utterance in which no rule keyword occurs is analysed as
\* unknown with confidence 0.5, no workflow and the 3 generic fallback
\* suggestions; "What's the weather today?" contains the help keyword "what"
\* and is analysed as help with confidence 0.85, no workflow and the 3 help
\* suggestions.
C2_UnrelatedText ==
  \A c \in Callers :
    Analyzed(c) =>
      LET r == ret[c].result
      IN /\ FiringRules(r.normalized_message) = {} =>
              /\ r.intent = "unknown"
              /\ r.confidence = <<1, 2>>
              /\ r.workflow = None
              /\ r.suggested_actions = FallbackSuggestions
              /\ Len(r.suggested_actions) = 3
         /\ ret[c].message.v = WeatherUtterance =>
              /\ r.intent = "help"
              /\ r.confidence = <<17, 20>>
              /\ r.workflow = None
              /\ r.suggested_actions = HelpSuggestions
              /\ Len(r.suggested_actions) = 3

C2_Witness ==
  \E c \in Callers :
    /\ Analyzed(c)
    /\ ret[c].message.v = WeatherUtterance
    /\ ret[c].result.intent = "help"

\* the text is empty or consists of whitespace only
Blank(text) == \A i \in 1..Len(text) : Ch(text, i) \in Whitespace

\* a finished LanguageDetector.detect call of caller c
LanguageDetected(c) == ret[c].op = "LanguageDetector.detect"

OnlyTenDigitWord(text, run) ==
  /\ Runs(text, Digits) = {run}
  /\ run[2] - run[1] + 1 = 10
  /\ ~IsWordAt(text, run[1] - 1)
  /\ ~IsWordAt(text, run[2] + 1)

\* C4: for a text whose only digit run is a whole-word run of exactly 10
\* digits, extract returns kra_pin equal to that run and no national_id.
C4_TenDigitsArePinOnly ==
  \A c \in Callers :
    ret[c].op = "extract_entities" =>
      \A run \in Runs(ret[c].message, Digits) :
        OnlyTenDigitWord(ret[c].message, run) =>
          /\ "kra_pin" \in DOMAIN ret[c].result
          /\ ret[c].result["kra_pin"] = SubSeq(ret[c].message, run[1], run[2])
          /\ "national_id" \notin DOMAIN ret[c].result

\* the fields every IntentResult carries
IntentResultFields ==
  {"intent", "confidence", "entities", "workflow", "suggested_actions",
   "requires_confirmation", "is_conversational"}

\* a finished analyze call of caller c
Detected(c) == ret[c].op = "IntentDetector.detect"

\* C5: with calls to analyze interleaved on the shared detector, the
\* language field of each result is the language detected for that call's
\* own utterance.
C5_OwnLanguage ==
  \A c \in Callers :
    Analyzed(c) => ret[c].result.language = detect_language(ret[c].message.v)

\* C6: the result of analyze and of LanguageDetector.detect depends only on
\* the call's arguments: it is the result the same call returns as the first
\* call on the detectors, whatever calls came before it.
C6_NoCarryOver ==
  \A c \in Callers :
    /\ Analyzed(c) =>
         ret[c].result.language = detect_language(ret[c].message.v)
    /\ Detected(c) /\ ~IsStr(ret[c].message) =>
         ret[c].result.language = "en"
    /\ LanguageDetected(c) =>
         ret[c].result =
           LanguageDetector_detect(ret[c].text, ret[c].session_context)

\* C7: a stage of analyze that raises does not raise to the caller: the
\* call returns the fixed error result (unknown, confidence 0, no entities,
\* no workflow, the single clarification prompt); every result, of every
\* input, carries all IntentResult fields.
C7_ErrorOutcome ==
  \A c \in Callers :
    /\ pc[c] = "RAISED" => ENABLED HandleError(c)
    /\ Detected(c) =>
         /\ IntentResultFields \subseteq DOMAIN ret[c].result
         /\ ~IsStr(ret[c].message) => ret[c].outcome = "ERROR"
         /\ ret[c].outcome = "ERROR" =>
              /\ ret[c].result.intent = "unknown"
              /\ ret[c].result.confidence = <<0, 1>>
              /\ ret[c].result.entities = EmptyDict
              /\ ret[c].result.workflow = None
              /\ ret[c].result.suggested_actions =
                   <<"Could you clarify what you need?">>

C7_Witness ==
  \E c \in Callers :
    /\ Detected(c)
    /\ ret[c].message = None
    /\ ret[c].outcome = "ERROR"
    /\ ret[c].result.intent = "unknown"

\* the caller passed no session context that pins a language
Unpinned(c) == ~HasPreferredLanguage(ret[c].session_context)

\* the utterance passed is the empty string or no str
EmptyOrNoStr(m) == ~IsStr(m) \/ m.v = ""

C9_LanguageAndConfidenceRange ==
  \A c \in Callers :
    LanguageDetected(c) =>
      /\ ret[c].result[1] \in {PyStr("en"), PyStr("sw")}
      /\ ret[c].result[2][1] >= 0
      /\ ret[c].result[2][1] <= ret[c].result[2][2]

\* the session context passed pins the language lang
PinnedTo(sc, lang) ==
  /\ sc # None
  /\ "preferred_language" \in DOMAIN sc
  /\ sc["preferred_language"] = PyStr(lang)

\* C10: whenever the session context has preferred_language = SW,
\* LanguageDetector.detect returns (SW, 1.0) for every text, empty and
\* non-string text included, and scores nothing; set_session_language('sw',
\* context) leaves the context pinned to SW.
C10_PinnedSwahili ==
  \A c \in Callers :
    /\ LanguageDetected(c) /\ PinnedTo(ret[c].session_context, "sw") =>
         /\ ret[c].result = <<PyStr("sw"), <<1, 1>>>>
         /\ ~ret[c].scored
    /\ /\ ret[c].op = "set_session_language"
       /\ ret[c].language = "sw"
       /\ ret[c].passed
       => PinnedTo(context[c], "sw")

C10_Witness ==
  \E c \in Callers :
    /\ LanguageDetected(c)
    /\ PinnedTo(ret[c].session_context, "sw")
    /\ ~IsStr(ret[c].text)
    /\ session_language = PyStr("sw")
    /\ ret[c].result = <<PyStr("sw"), <<1, 1>>>>

\* C11: if the session context passed to analyze has preferred_language
\* present, the language of the result is the pinned value, whatever the
\* utterance.
C11_PipelineHonoursPin ==
  \A c \in Callers :
    Analyzed(c) /\ HasPreferredLanguage(ret[c].session_context) =>
      PyStr(ret[c].result.language) =
        ret[c].session_context["preferred_language"]

\* the segments of a finished detect_code_switches call of caller c
Segmented(c) ==
  ret[c].op = "detect_code_switches" /\ ret[c].outcome = "DONE"

\* C12: detect_code_switches never returns two adjacent segments with the
\* same language tag, for every input text.
C12_AdjacentLanguagesDiffer ==
  \A c \in Callers :
    Segmented(c) =>
      \A i \in 1..(Len(ret[c].result) - 1) :
        ret[c].result[i].language # ret[c].result[i + 1].language

\* two sentences of the same language were merged, and a switch followed
C12_Witness ==
  \E c \in Callers :
    /\ Segmented(c)
    /\ Len(ret[c].result) >= 2
    /\ \E i \in 1..Len(ret[c].result) :
         Len(ReSplit(ret[c].result[i].text)) >= 3
    /\ ret[c].result[1].language # ret[c].result[2].language

\* C13: the segments of detect_code_switches are spans into the text: every
\* segment has 0 <= start <= end <= len(text), each segment starts no
\* earlier than the previous one ends, and the spans run from the start of
\* the first sentence to the end of the text.
C13_SpansCoverText ==
  \A c \in Callers :
    Segmented(c) =>
      LET segs == ret[c].result
          n == Len(ret[c].text.v)
      IN /\ \A i \in 1..Len(segs) :
              /\ 0 <= segs[i].start
              /\ segs[i].start <= segs[i].end
              /\ segs[i].end <= n
         /\ \A i \in 1..(Len(segs) - 1) : segs[i].end <= segs[i + 1].start
         /\ segs # <<>> => segs[Len(segs)].end = n

\* English utterances with a nil-returns keyword and a 10-digit number
EnglishNilReturnsUtterances ==
  {"Hello! I want to file nil returns, my KRA pin is 1234567890",
   "Good day, I would need to file nil returns please, my KRA pin is 1234567890"}

\* the runs of exactly 10 digits of text that stand as whole words
TenDigitWords(text) ==
  {r \in Runs(text, Digits) :
     /\ r[2] - r[1] + 1 = 10
     /\ ~IsWordAt(text, r[1] - 1)
     /\ ~IsWordAt(text, r[2] + 1)}

\* C14: an English utterance with a nil-returns keyword and a whole-word
\* 10-digit number is analysed as language EN, intent kra_nil_returns with
\* confidence 0.95, entities with kra_pin equal to the number, service_type
\* "nil_returns" and requires_pin false, the workflow "KRA Nil Returns
\* Filing" with 7 steps, and requires_confirmation true.
C14_NilReturnsEndToEnd ==
  \A c \in Callers :
    /\ Analyzed(c)
    /\ ret[c].message.v \in EnglishNilReturnsUtterances
    /\ Fires(1, normalize_message(ret[c].message.v))
    /\ TenDigitWords(ret[c].message.v) # {}
    => LET r == ret[c].result
           text == ret[c].message.v
       IN /\ r.language = "en"
          /\ r.intent = "kra_nil_returns"
          /\ r.confidence = <<19, 20>>
          /\ "kra_pin" \in DOMAIN r.entities
          /\ \E run \in TenDigitWords(text) :
               r.entities["kra_pin"] = SubSeq(text, run[1], run[2])
          /\ r.entities["service_type"] = "nil_returns"
          /\ r.entities["requires_pin"] = FALSE
          /\ r.workflow # None
          /\ r.workflow.name = "KRA Nil Returns Filing"
          /\ Len(r.workflow.steps) = 7
          /\ r.requires_confirmation

\* C15: the language tag analyze reports for an utterance is the tag
\* LanguageDetector.detect returns for the same utterance and session
\* context; "Nataka kusaidia, nambari yangu ya simu ni 0712345678" is
\* reported as SW.
C15_SameTagAsLanguageDetector ==
  \A c \in Callers :
    Analyzed(c) =>
      /\ PyStr(ret[c].result.language) =
           LanguageDetector_detect(ret[c].message, ret[c].session_context)[1]
      /\ ret[c].message.v =
           "Nataka kusaidia, nambari yangu ya simu ni 0712345678"
         => ret[c].result.language = "sw"

\* after this step caller c holds what an _extract_entities call on the
\* shared detector returned
ExtractReturns(c) ==
  ret'[c].op = "extract_entities" /\ "first" \in DOMAIN ret'[c]

Resolved(c) == ret[c].op = "get_workflow" /\ ~ret[c].mutated

\* C17: the workflow resolver's result is determined by the intent alone:
\* for every intent, the calls with any entities and any session context
\* return the descriptor of the call with no entities and no context;
\* kra_pin_recovery has requires_authentication false and sms_confirmation
\* true.
C17_IntentAloneDecides ==
  \A c \in Callers :
    Resolved(c) =>
      /\ ret[c].result = get_workflow(ret[c].intent, EmptyDict, None)
      /\ ret[c].intent = "kra_pin_recovery" =>
           /\ ret[c].result # None
           /\ ret[c].result.requires_authentication = FALSE
           /\ ret[c].result.sms_confirmation = TRUE

C17_Witness ==
  \E c \in Callers :
    /\ Resolved(c)
    /\ ret[c].intent = "kra_pin_recovery"
    /\ ret[c].entities # EmptyDict
    /\ "national_id" \notin DOMAIN ret[c].entities
    /\ ret[c].session_context # None
    /\ ret[c].result.name = "KRA PIN Recovery"

\* the intents of the workflow table
TableIntents ==
  {"kra_nil_returns", "kra_pin_recovery", "kra_pin_generation", "itax_help",
   "book_appointment"}

\* C18: resolve returns a workflow descriptor exactly for the five table
\* intents and null for every other intent, greeting, help, unknown,
\* service_inquiry, confirm and negate included.
C18_DescriptorForTableIntentsOnly ==
  \A c \in Callers :
    Resolved(c) =>
      /\ ret[c].intent \in TableIntents =>
           /\ ret[c].result # None
           /\ DOMAIN ret[c].result =
                {"name", "steps", "urls", "requires_authentication",
                 "sms_confirmation"}
      /\ ret[c].intent \notin TableIntents => ret[c].result = None

C18_Witness ==
  \E c \in Callers :
    /\ Resolved(c)
    /\ ret[c].intent = "service_inquiry"
    /\ ret[c].result = None
    /\ ret[c].held # None

\* after this step caller c holds a descriptor _get_workflow has returned
ResolveReturns(c) == ret'[c].op = "get_workflow" /\ ~ret'[c].mutated

\* C19: every workflow descriptor is a fresh value: after a caller has
\* mutated a descriptor it was given, a later call for the same intent
\* returns the descriptor as the first call returned it.
C19_FreshDescriptor ==
  [][\A c \in Callers :
       ResolveReturns(c) /\ ret'[c].intent = ret'[c].first.intent =>
         ret'[c].result = ret'[c].first.result]_vars

\* the caller holds a descriptor it mutated and receives a pristine one
C19_Witness ==
  \E c \in Callers :
    /\ Resolved(c)
    /\ ret[c].intent = ret[c].first.intent
    /\ ret[c].result # None
    /\ ret[c].held # None
    /\ ret[c].held.name = ret[c].result.name
    /\ ret[c].held.urls # ret[c].result.urls
    /\ ret[c].result = ret[c].first.result

\* caller c holds the list of a _get_suggestions call
Suggested(c) == ret[c].op = "get_suggestions"

\* C20 as stated: suggest returns a list of exactly 3 items for every
\* intent.
C20_Original ==
  \A c \in Callers : Suggested(c) => Len(ret[c].result) = 3

\* C20 amended: suggest returns a list of exactly 3 items for every intent
\* other than greeting (the fallback list for itax_help, book_appointment
\* and every intent without a list of its own), and a list of 4 items for
\* greeting.
C20_SuggestionCounts ==
  \A c \in Callers :
    Suggested(c) =>
      /\ ret[c].intent # "greeting" => Len(ret[c].result) = 3
      /\ ret[c].intent = "greeting" => Len(ret[c].result) = 4
      /\ ret[c].intent \notin
           {"kra_nil_returns", "kra_pin_recovery", "kra_pin_generation",
            "greeting", "help"}
         => ret[c].result = FallbackSuggestions

C20_Witness ==
  \E c \in Callers :
    /\ Suggested(c)
    /\ ret[c].intent = "greeting"
    /\ Len(ret[c].result) = 4
    /\ ret[c].result[4] = "Book an appointment"

\* the operation whose return caller c holds after this step
Op(c) == ret'[c].op

\* context d is context b with at most the key preferred_language written
OnlyPreferredLanguageWritten(b, d, lang) ==
  /\ DOMAIN d = DOMAIN b \cup {"preferred_language"}
  /\ d["preferred_language"] = PyStr(lang)
  /\ \A k \in DOMAIN b \ {"preferred_language"} : d[k] = b[k]

\* C21: the caller's session context is written only by an explicit pin:
\* analyze, LanguageDetector.detect and detect_code_switches leave it
\* unchanged; set_session_language(language, context) writes only the key
\* preferred_language and only for 'en' and 'sw'; for any other language the
\* context and the detector's session_language stay as they were.
C21_ContextWrittenByPinOnly ==
  [][\A c \in Callers :
       /\ context'[c] # context[c] =>
            /\ Op(c) = "set_session_language"
            /\ ret'[c].passed
            /\ ret'[c].language \in {"en", "sw"}
            /\ OnlyPreferredLanguageWritten(context[c], context'[c],
                                            ret'[c].language)
       /\ session_language' # session_language =>
            /\ Op(c) = "set_session_language"
            /\ ret'[c].language \in {"en", "sw"}
       /\ pc[c] # "idle" \/ pc'[c] # "idle" => context' = context]_vars

\* a pin of an unsupported language was refused, on a context that an
\* earlier pin has written and an analyze call has read
C21_Witness ==
  \E c \in Callers :
    /\ ret[c].op = "set_session_language"
    /\ ret[c].language = "fr"
    /\ ret[c].passed
    /\ context[c] = ret[c].before
    /\ PinnedTo(context[c], "sw")
    /\ context[c]["booking_state"] = PyStr("started")
    /\ session_language = PyStr("sw")
    /\ language = "sw"


\* the scores of a finished, scored LanguageDetector.detect call, as the
\* exact weighted sums
ScoresOf(c) ==
  LET normalized_text == Strip(Lower(ret[c].text.v))
  IN [sw |-> score_kiswahili(normalized_text),
      en |-> score_english(normalized_text)]

InUnitInterval(r) == r[1] >= 0 /\ r[1] <= r[2]

\* C22: with no pinned language LanguageDetector.detect returns SW if and
\* only if the Kiswahili score exceeds the English score by more than 0.2,
\* otherwise EN; both scores lie in [0,1]; the confidence is the winning
\* score divided by the sum of both scores, and 0.6 when both are zero.
C22_MarginRule ==
  \A c \in Callers :
    LanguageDetected(c) /\ ret[c].scored =>
      LET s == ScoresOf(c)
          sum == RatAdd(s.sw, s.en)
          won == IF ret[c].result[1] = PyStr("sw") THEN s.sw ELSE s.en
      IN /\ InUnitInterval(s.sw) /\ InUnitInterval(s.en)
         /\ ret[c].result[1] \in {PyStr("sw"), PyStr("en")}
         /\ ret[c].result[1] = PyStr("sw")
              <=> RatLess(RatAdd(s.en, Rat(2, 10)), s.sw)
         /\ ret[c].result[2] = IF sum = Rat(0, 1) THEN Rat(6, 10)
                               ELSE RatDiv(won, sum)

\* the indices of the sentences of text that are not blank
NonBlankSentences(text) ==
  {k \in 1..Len(ReSplit(text)) : Strip(ReSplit(text)[k]) # ""}

SentenceLanguage(text, k) ==
  LanguageDetector_detect(PyStr(ReSplit(text)[k]), None)[1]

\* the non-blank sentences that begin a run: the first one, and every one
\* whose language differs from that of the non-blank sentence before it
RunStarts(text) ==
  LET nb == NonBlankSentences(text)
  IN {k \in nb :
        \/ \A j \in nb : j >= k
        \/ LET before == CHOOSE j \in nb :
                           j < k /\ \A i \in nb : i < k => i <= j
           IN SentenceLanguage(text, before) # SentenceLanguage(text, k)}

\* the run that begins at sentence k: the non-blank sentences from k up to
\* the next run start
RunOf(text, k) ==
  {j \in NonBlankSentences(text) :
     j >= k /\ \A r \in RunStarts(text) : r > k => j < r}

\* the sentences of the set, in input order, each followed by ". "
RECURSIVE Joined(_, _)
Joined(text, run) ==
  IF run = {} THEN ""
  ELSE LET k == CHOOSE j \in run : \A i \in run : j <= i
       IN ReSplit(text)[k] \o ". " \o Joined(text, run \ {k})

\* the j-th run start, in input order
NthRunStart(text, j) ==
  CHOOSE k \in RunStarts(text) :
    Cardinality({r \in RunStarts(text) : r <= k}) = j

\* C23: detect_code_switches splits the text on '.', '!' and '?', skips
\* empty sentences and returns one segment per maximal run of consecutive
\* non-empty sentences with the same detected language, in input order, the
\* final run included; the text of a segment holds exactly the sentences of
\* its run in order, each followed by the injected ". "; the result is
\* empty only when the text has no non-empty sentence.
C23_SegmentsAreRuns ==
  \A c \in Callers :
    Segmented(c) =>
      LET text == ret[c].text.v
          segments == ret[c].result
      IN /\ Len(segments) = Cardinality(RunStarts(text))
         /\ \A j \in 1..Len(segments) :
              LET k == NthRunStart(text, j)
              IN /\ segments[j].language = SentenceLanguage(text, k)
                 /\ segments[j].text = Strip(Joined(text, RunOf(text, k)))
         /\ segments = <<>> <=> NonBlankSentences(text) = {}

\* two segments, a run of two sentences with a skipped empty sentence within
C23_Witness ==
  \E c \in Callers :
    /\ Segmented(c)
    /\ Len(ret[c].result) >= 2
    /\ \E k \in RunStarts(ret[c].text.v) :
         /\ Cardinality(RunOf(ret[c].text.v, k)) >= 2
         /\ \E e \in 1..Len(ReSplit(ret[c].text.v)) :
              /\ e \notin NonBlankSentences(ret[c].text.v)
              /\ \E i, j \in RunOf(ret[c].text.v, k) : i < e /\ e < j

\* the stage a call is in once the stage named has run
StageAfter ==
  [START |-> "LANGUAGE_RESOLVED",
   LANGUAGE_RESOLVED |-> "INTENT_CLASSIFIED",
   INTENT_CLASSIFIED |-> "ENTITIES_EXTRACTED",
   ENTITIES_EXTRACTED |-> "WORKFLOW_RESOLVED"]

\* what each stage has added to the locals of the call
StageLocals ==
  [START |-> {"message", "session_context"},
   LANGUAGE_RESOLVED |-> {"message", "session_context"},
   INTENT_CLASSIFIED |->
     {"message", "session_context", "normalized", "intent", "confidence"},
   ENTITIES_EXTRACTED |->
     {"message", "session_context", "normalized", "intent", "confidence",
      "entities"},
   WORKFLOW_RESOLVED |->
     {"message", "session_context", "normalized", "intent", "confidence",
      "entities", "workflow"}]

\* one step of caller c keeps the order of the stages
InStageOrder(c) ==
  /\ pc[c] = "idle" => pc'[c] \in {"idle", "START"}
  /\ pc[c] \in DOMAIN StageAfter =>
       pc'[c] \in {pc[c], StageAfter[pc[c]], "RAISED"}
  /\ pc[c] = "WORKFLOW_RESOLVED" =>
       \/ pc'[c] \in {pc[c], "RAISED"}
       \/ /\ pc'[c] = "idle"
          /\ ret'[c].op = "IntentDetector.detect"
          /\ ret'[c].outcome = "DONE"
          /\ DOMAIN ret'[c].result =
               IntentResultFields \cup {"language", "normalized_message"}
  /\ pc[c] = "RAISED" =>
       /\ language' = language
       /\ \/ pc'[c] = pc[c] /\ frame'[c] = frame[c]
          \/ /\ pc'[c] = "idle"
             /\ ret'[c].op = "IntentDetector.detect"
             /\ ret'[c].outcome = "ERROR"
  /\ pc'[c] \in DOMAIN StageLocals => DOMAIN frame'[c] = StageLocals[pc'[c]]
  /\ pc'[c] = pc[c] => frame'[c] = frame[c]

\* a call of IntentDetector.detect is under way
InCall == \E c \in Callers : pc[c] # "idle"

\* the call has returned its result or the error dict
Ended ==
  \A c \in Callers :
    /\ pc[c] = "idle"
    /\ ret[c].op = "IntentDetector.detect"
    /\ ret[c].outcome \in {"DONE", "ERROR"}

\* C24: every call of detect passes through language resolution, intent
\* classification, entity extraction, workflow resolution and suggestion
\* generation in that order, each stage at most once and never again, and
\* always ends in DONE or, from the stage that raised, directly in ERROR; no
\* stage runs after a failed one.
C24_StageOrderAndTermination ==
  /\ [][\A c \in Callers : InStageOrder(c)]_vars
  /\ InCall ~> Ended

\* a call that ran all stages and returned a workflow, entities and three
\* suggestions
C24_Witness ==
  \E c \in Callers :
    /\ Detected(c)
    /\ ret[c].outcome = "DONE"
    /\ ret[c].result.workflow # None
    /\ ret[c].result.entities # EmptyDict
    /\ Len(ret[c].result.suggested_actions) = 3

\* a finished _extract_entities call of caller c
Extracted(c) == ret[c].op = "extract_entities" /\ "result" \in DOMAIN ret[c]

\* the fixed service_type of the three KRA intents
ServiceTypes ==
  (INTENT_KRA_NIL_RETURNS :> "nil_returns")
  @@ (INTENT_KRA_PIN_RECOVERY :> "pin_recovery")
  @@ (INTENT_KRA_PIN_GENERATION :> "pin_generation")

DerivedFlags == {"requires_pin", "requires_identification"}

\* C25: for kra_pin_recovery and kra_pin_generation the entities hold
\* requires_identification, true exactly when no national_id was extracted;
\* for kra_nil_returns they hold requires_pin, true exactly when no kra_pin
\* was extracted; service_type is the fixed string of the intent for these
\* three intents; for every other intent none of service_type, requires_pin
\* and requires_identification is present.
C25_DerivedFlags ==
  \A c \in Callers :
    Extracted(c) =>
      LET e == ret[c].result
          intent == ret[c].intent
      IN /\ intent \in {INTENT_KRA_PIN_RECOVERY, INTENT_KRA_PIN_GENERATION} =>
              /\ "requires_identification" \in DOMAIN e
              /\ e["requires_identification"] = ("national_id" \notin DOMAIN e)
              /\ "requires_pin" \notin DOMAIN e
         /\ intent = INTENT_KRA_NIL_RETURNS =>
              /\ "requires_pin" \in DOMAIN e
              /\ e["requires_pin"] = ("kra_pin" \notin DOMAIN e)
              /\ "requires_identification" \notin DOMAIN e
         /\ intent \in DOMAIN ServiceTypes =>
              /\ "service_type" \in DOMAIN e
              /\ e["service_type"] = ServiceTypes[intent]
         /\ intent \notin DOMAIN ServiceTypes =>
              DOMAIN e \cap ({"service_type"} \cup DerivedFlags) = {}

\* a PIN recovery with a national ID in the text needs no identification
C25_Witness ==
  \E c \in Callers :
    /\ Extracted(c)
    /\ ret[c].intent = INTENT_KRA_PIN_RECOVERY
    /\ "national_id" \in DOMAIN ret[c].result
    /\ ret[c].result["requires_identification"] = FALSE
    /\ ret[c].result["service_type"] = "pin_recovery"

\* C26: date and time_slot are extracted only for book_appointment; for
\* that intent time_slot is "morning" if the lower-cased text contains
\* "morning" or "am", otherwise "afternoon" if it contains "afternoon" or
\* "pm", otherwise the key is absent; an entity key is present only with a
\* value, never with the empty string.
C26_BookingFields ==
  \A c \in Callers :
    Extracted(c) =>
      LET e == ret[c].result
          lowered == Lower(ret[c].message)
          morning == Contains(lowered, "morning") \/ Contains(lowered, "am")
          afternoon == Contains(lowered, "afternoon") \/ Contains(lowered, "pm")
      IN /\ ret[c].intent # INTENT_BOOKING =>
              DOMAIN e \cap {"date", "time_slot"} = {}
         /\ ret[c].intent = INTENT_BOOKING =>
              /\ morning =>
                   "time_slot" \in DOMAIN e /\ e["time_slot"] = "morning"
              /\ ~morning /\ afternoon =>
                   "time_slot" \in DOMAIN e /\ e["time_slot"] = "afternoon"
              /\ ~morning /\ ~afternoon => "time_slot" \notin DOMAIN e
         /\ \A k \in DOMAIN e \ DerivedFlags : e[k] # ""

\* a booking that names "pm" and "am": the slot is the morning
C26_Witness ==
  \E c \in Callers :
    /\ Extracted(c)
    /\ ret[c].intent = INTENT_BOOKING
    /\ Contains(Lower(ret[c].message), "pm")
    /\ ret[c].result["time_slot"] = "morning"
    /\ "date" \in DOMAIN ret[c].result

AllDigits(v) == AllIn(v, 1, Len(v), Digits)

\* C27: every national_id stored by _extract_entities consists of exactly 8
\* digits, all whitespace inside the match removed, whichever whitespace
\* characters (space, tab, newline) separated the four groups of two digits.
C27_NationalIdEightDigits ==
  \A c \in Callers :
    Extracted(c) /\ "national_id" \in DOMAIN ret[c].result =>
      /\ Len(ret[c].result["national_id"]) = 8
      /\ AllDigits(ret[c].result["national_id"])

\* v has the shape of a Kenyan mobile number
MobileShape(v) ==
  \/ /\ Len(v) = 10
     /\ StartsAt(v, 1, "07") \/ StartsAt(v, 1, "01")
     /\ AllDigits(v)
  \/ /\ Len(v) = 13
     /\ StartsAt(v, 1, "+254")
     /\ Ch(v, 5) \in {"1", "7"}
     /\ AllIn(v, 5, 13, Digits)

\* the mobile numbers of the text: substrings of that shape that are not a
\* part of a longer run of digits
MobileNumbers(text) ==
  {SubSeq(text, i, i + n - 1) :
     <<i, n>> \in {p \in (1..Len(text)) \X {10, 13} :
                     /\ p[1] + p[2] - 1 <= Len(text)
                     /\ MobileShape(SubSeq(text, p[1], p[1] + p[2] - 1))
                     /\ Ch(text, p[1] + p[2]) \notin Digits
                     /\ p[1] > 1 => Ch(text, p[1] - 1) \notin Digits}}

\* C28: every phone_number stored by _extract_entities has the shape of a
\* Kenyan mobile number, 10 digits that begin with 07 or 01, or +254 and 9
\* digits that begin with 1 or 7; a text that holds no such number (a bare
\* run of 9 digits, the leading digits of a longer number) yields no
\* phone_number.
C28_PhoneShape ==
  \A c \in Callers :
    Extracted(c) =>
      /\ "phone_number" \in DOMAIN ret[c].result =>
           MobileShape(ret[c].result["phone_number"])
      /\ MobileNumbers(ret[c].message) = {} =>
           "phone_number" \notin DOMAIN ret[c].result

\* C29: every keyword fires its own rule: the utterance that consists of
\* exactly one keyword of a rule of the cascade is classified with the
\* intent and the confidence of that rule ("book" is book_appointment at
\* 0.80, "new pin" of the PIN generation list is kra_pin_generation at 0.90);
\* no keyword is shadowed by a substring match of an earlier rule.
C29_EveryKeywordFires ==
  \A c \in Callers :
    ret[c].op = "detect_primary_intent" =>
      /\ \A i \in 1..Len(RuleTable) :
           \A k \in 1..Len(RuleTable[i].keywords) :
             ret[c].normalized = RuleTable[i].keywords[k] =>
               ret[c].result = RuleTable[i].result
      /\ ret[c].normalized = "book" =>
           ret[c].result = <<"book_appointment", <<4, 5>>>>
      /\ ret[c].normalized = "new pin" =>
           ret[c].result = <<"kra_pin_generation", <<9, 10>>>>

\* the confidence the cascade gives each intent
ConfidenceOf ==
  (INTENT_KRA_NIL_RETURNS :> <<19, 20>>)
  @@ (INTENT_KRA_PIN_RECOVERY :> <<19, 20>>)
  @@ (INTENT_KRA_PIN_GENERATION :> <<9, 10>>)
  @@ (INTENT_GREETING :> <<9, 10>>)
  @@ (INTENT_ITAX_HELP :> <<17, 20>>)
  @@ (INTENT_HELP :> <<17, 20>>)
  @@ (INTENT_SERVICE_INQUIRY :> <<17, 20>>)
  @@ (INTENT_CONFIRMATION :> <<4, 5>>)
  @@ (INTENT_NEGATE :> <<4, 5>>)
  @@ (INTENT_BOOKING :> <<4, 5>>)
  @@ (INTENT_UNKNOWN :> <<1, 2>>)

====
